---- MODULE Spec2Model ----
(***************************************************************************)
(* Repetition segmentation of the BeFit workout assistant                  *)
(* (workout-utils: segmentReps and its helpers) and the form-analysis page *)
(* that drives it once per video frame.                                    *)
(*                                                                         *)
(* Numbers.  Angles are whole degrees.  A composite value is kept in units *)
(* of 1/SignalUnit degree and a smoothed value in units of                 *)
(* 1/SmoothUnit of that, so that every mean the code takes is an exact     *)
(* integer here; the code only ever compares, adds and subtracts values    *)
(* of one sequence, which is independent of the unit.                      *)
(* Arrays are sequences; an index written i is the code's 0-based index,   *)
(* stored at position i + 1.                                               *)
(* Landmarks.  A Landmark is kept in polar form about the joint it is      *)
(* measured at: r is its distance from that joint (the vertex itself has   *)
(* r = 0) and theta its bearing in degrees.                                *)
(***************************************************************************)
EXTENDS Integers, Sequences, FiniteSets, TLC

VARIABLES
    poseHistory,            \* form-analysis: let poseHistory / harness: the poseHistory argument
    exerciseConfig,         \* the ExerciseConfig in use (currentExercise.exerciseConfig.config)
    lastProcessedRepCount,  \* form-analysis: let lastProcessedRepCount / harness: the argument
    currentReps,            \* form-analysis: let currentReps
    maxRepsEverSeen,        \* form-analysis: let maxRepsEverSeen
    microtasks,             \* resolved processExerciseReps promises whose .then has not run yet
    feedbackRequests,       \* POST /api/feedback requests started since the last reset
    call,                   \* the latest segmentReps call: its locals and its return value
    again,                  \* harness: the return of a second call with lastProcessedRepCount = first repCount
    source,                 \* the person in front of the camera (what the next frame shows)
    feedbackOutcomes,       \* how each request of feedbackRequests has ended, "pending" until then
    exerciseConfigCache,    \* workout-utils: const exerciseConfigCache, a Map as a function
    configCalls             \* processExerciseReps calls waiting in getExerciseConfig; cleared
                            \* records that the cache was cleared while the call waited

vars == << poseHistory, exerciseConfig, lastProcessedRepCount, currentReps,
           maxRepsEverSeen, microtasks, feedbackRequests, call, again, source,
           feedbackOutcomes, exerciseConfigCache, configCalls >>

-----------------------------------------------------------------------------
(* Bounds of the model *)

MaxFrames == 28          \* frames a free or steady source delivers
MaxLastProcessed == 1    \* largest lastProcessedRepCount the harness passes
MaxEmptyFrames == 1      \* no-detection frames a steady source delivers

-----------------------------------------------------------------------------
(* Values *)

Null == (0 - 1) :> (0 - 1)       \* JavaScript null / undefined
Undefined == 0 - 1               \* an optional number that is not declared

\* the number NaN: no arithmetic result of the model is this small
NaN == 0 - 999999999

\* arithmetic and comparison of JavaScript numbers: an operation on NaN gives
\* NaN, a comparison with NaN is false
Plus(a, b) == IF a = NaN \/ b = NaN THEN NaN ELSE a + b
Minus(a, b) == IF a = NaN \/ b = NaN THEN NaN ELSE a - b
Times(a, b) == IF a = NaN \/ b = NaN THEN NaN ELSE a * b
LessEq(a, b) == a # NaN /\ b # NaN /\ a <= b
Greater(a, b) == a # NaN /\ b # NaN /\ a > b

Max2(a, b) == IF a >= b THEN a ELSE b
Min2(a, b) == IF a <= b THEN a ELSE b

RECURSIVE Gcd(_, _)
Gcd(a, b) == IF b = 0 THEN a ELSE Gcd(b, a % b)

RECURSIVE LcmUpTo(_)
LcmUpTo(n) == IF n <= 1 THEN 1 ELSE LET l == LcmUpTo(n - 1) IN (l * n) \div Gcd(l, n)

RECURSIVE SumRange(_, _, _)
SumRange(s, a, b) == IF a > b THEN 0 ELSE s[a] + SumRange(s, a + 1, b)

Range(s) == { s[i] : i \in 1..Len(s) }
SeqMin(s) == CHOOSE m \in Range(s) : \A x \in Range(s) : m <= x
SeqMax(s) == CHOOSE m \in Range(s) : \A x \in Range(s) : m >= x

\* Math.min(...s) and Math.max(...s): NaN when an element is NaN
MathMin(s) == IF NaN \in Range(s) THEN NaN ELSE SeqMin(s)
MathMax(s) == IF NaN \in Range(s) THEN NaN ELSE SeqMax(s)

-----------------------------------------------------------------------------
(* LANDMARK_INDICES and PREDEFINED_EXERCISE_CONFIGS *)

LEFT_SHOULDER == 11
RIGHT_SHOULDER == 12
LEFT_ELBOW == 13
RIGHT_ELBOW == 14
LEFT_WRIST == 15
RIGHT_WRIST == 16
LEFT_HIP == 23
RIGHT_HIP == 24
LEFT_KNEE == 25
RIGHT_KNEE == 26
LEFT_ANKLE == 27
RIGHT_ANKLE == 28

bicep_curl ==
    [ name |-> "bicep_curl", initialDirection |-> "down", inverted |-> TRUE,
      minPeakDistance |-> 8,
      anglePoints |-> <<
        [ name |-> "left_elbow", points |-> << LEFT_SHOULDER, LEFT_ELBOW, LEFT_WRIST >>,
          weight |-> 1, targetLowAngle |-> 45, targetHighAngle |-> 150 ],
        [ name |-> "right_elbow", points |-> << RIGHT_SHOULDER, RIGHT_ELBOW, RIGHT_WRIST >>,
          weight |-> 1, targetLowAngle |-> 45, targetHighAngle |-> 150 ] >> ]

squat ==
    [ name |-> "squat", initialDirection |-> "up", inverted |-> TRUE,
      minPeakDistance |-> 12,
      anglePoints |-> <<
        [ name |-> "left_knee", points |-> << LEFT_HIP, LEFT_KNEE, LEFT_ANKLE >>,
          weight |-> 1, targetLowAngle |-> 90, targetHighAngle |-> 170 ],
        [ name |-> "right_knee", points |-> << RIGHT_HIP, RIGHT_KNEE, RIGHT_ANKLE >>,
          weight |-> 1, targetLowAngle |-> 90, targetHighAngle |-> 170 ] >> ]

\* A configuration as /api/exercise-config generates them (minPeakDistance 5..20,
\* no target angles declared), here one that is not inverted.
generated_config ==
    [ name |-> "lateral_raise", initialDirection |-> "down", inverted |-> FALSE,
      minPeakDistance |-> 5,
      anglePoints |-> <<
        [ name |-> "left_shoulder", points |-> << LEFT_SHOULDER, LEFT_ELBOW, LEFT_WRIST >>,
          weight |-> 1, targetLowAngle |-> Undefined, targetHighAngle |-> Undefined ],
        [ name |-> "right_shoulder", points |-> << RIGHT_SHOULDER, RIGHT_ELBOW, RIGHT_WRIST >>,
          weight |-> 1, targetLowAngle |-> Undefined, targetHighAngle |-> Undefined ] >> ]

Configs == { bicep_curl, squat, generated_config }

-----------------------------------------------------------------------------
(* Poses *)

EmptyPose == << >>       \* a frame with no detection: pose.length === 0

\* a pose that ends after the left shoulder: an array of length 12, of which
\* the nose and the left shoulder are kept
ShortPose == [ p \in { 0, LEFT_SHOULDER } |-> [ r |-> 1, theta |-> 0 ] ]

\* pose[p] is a landmark (truthy) iff p is an index of the pose.
HasLandmark(pose, p) == p \in DOMAIN pose

\* The landmarks the angle definitions read, with every tracked joint at
\* `angle` degrees; the landmarks no definition names are never read and
\* are left out.
PoseAt(angleConfigs, angle) ==
    LET ids == UNION { { angleConfigs[n].points[1], angleConfigs[n].points[2],
                         angleConfigs[n].points[3] } : n \in 1..Len(angleConfigs) }
        third == { angleConfigs[n].points[3] : n \in 1..Len(angleConfigs) }
        vertex == { angleConfigs[n].points[2] : n \in 1..Len(angleConfigs) }
    IN  [ p \in ids |->
            IF p \in vertex THEN [ r |-> 0, theta |-> 0 ]
            ELSE IF p \in third THEN [ r |-> 1, theta |-> angle ]
            ELSE [ r |-> 1, theta |-> 0 ] ]

\* what a degenerate frame shows: 1 the first point of the first angle
\* definition lies on its vertex, 2 the third point of the first definition
\* does, 3 the third point of every definition does
DegenerateKinds == 1..3

\* PoseAt with landmarks that coincide
DegeneratePose(angleConfigs, angle, kind) ==
    LET pose == PoseAt(angleConfigs, angle)
        onVertex == CASE kind = 1 -> { angleConfigs[1].points[1] }
                      [] kind = 2 -> { angleConfigs[1].points[3] }
                      [] kind = 3 -> { angleConfigs[n].points[3] : n \in 1..Len(angleConfigs) }
    IN  [ p \in DOMAIN pose |-> IF p \in onVertex THEN [ pose[p] EXCEPT !.r = 0 ] ELSE pose[p] ]

-----------------------------------------------------------------------------
(* calculateAngle: cos = (v1 . v2) / (|v1| |v2|), acos, degrees.  About the  *)
(* vertex v1 and v2 are point1 and point3 themselves, v1 . v2 is            *)
(* |v1| |v2| cos(theta1 - theta3), so cos is cos(theta1 - theta3) and the   *)
(* acos of it, in [0, 180], is the bearing difference folded into [0, 180]. *)
(* When point1 or point3 lies on the vertex, its magnitude and the dot       *)
(* product are 0 and cos is 0 / 0 = NaN, which Math.min and Math.max hand    *)
(* on and of which Math.acos is NaN.                                         *)

\* variant for C21: an angle of 0 when a magnitude is 0
calculateAngle_ZeroMagnitude(point1, vertex, point3) ==
    LET d == (point1.theta - point3.theta) % 360
    IN  IF point1.r = 0 \/ point3.r = 0 THEN 0
        ELSE IF d > 180 THEN 360 - d ELSE d

calculateAngle(point1, vertex, point3) ==
    LET d == (point1.theta - point3.theta) % 360
    IN  IF point1.r = 0 \/ point3.r = 0 THEN NaN
        ELSE IF d > 180 THEN 360 - d ELSE d

-----------------------------------------------------------------------------
(* calculateAngle in IEEE 754 double arithmetic, on landmarks [x, y] with   *)
(* whole coordinates.  The differences, the dot product and the squares of  *)
(* the magnitudes are whole numbers and exact; Math.sqrt, the product of    *)
(* the magnitudes, the division, Math.acos and the conversion to degrees    *)
(* round.  Angles are in millionths of a degree, to the nearest one.        *)

Degree == 1000000        \* millionths in a degree

\* magnitude1 * magnitude2 for two collinear vectors, whose squared magnitudes
\* are the first two entries (the smaller first): how many units in the last
\* place the double product lies above the exact whole product
CollinearProducts ==
    {
      << 1, 1, 0 >>, << 1, 4, 0 >>, << 2, 2, 1 >>, << 2, 8, 1 >>,
      << 2, 18, 0 >>, << 4, 4, 0 >>, << 5, 5, 1 >>, << 8, 8, 1 >>,
      << 8, 18, 0 >>, << 13, 13, 0 - 1 >>, << 13, 52, 0 - 1 >>, << 18, 18, 0 - 1 >>,
      << 52, 52, 0 - 1 >> }

\* Math.acos(cosAngle) * 180 / Math.PI for two vectors that are not
\* collinear: dot product, the two squared magnitudes (the smaller first),
\* and the angle
AcosDegrees ==
    {
      << 0 - 30, 18, 52, 168690068 >>, << 0 - 15, 13, 18, 168690068 >>, << 0 - 12, 4, 52, 146309932 >>,
      << 0 - 10, 2, 52, 168690068 >>, << 0 - 10, 8, 13, 168690068 >>, << 0 - 9, 5, 18, 161565051 >>,
      << 0 - 8, 5, 13, 172874984 >>, << 0 - 6, 4, 13, 146309932 >>, << 0 - 6, 4, 18, 135000000 >>,
      << 0 - 5, 2, 13, 168690068 >>, << 0 - 4, 1, 52, 123690068 >>, << 0 - 4, 4, 5, 153434949 >>,
      << 0 - 4, 4, 8, 135000000 >>, << 0 - 3, 1, 13, 146309932 >>, << 0 - 3, 1, 18, 135000000 >>,
      << 0 - 3, 2, 5, 161565051 >>, << 0 - 3, 5, 18, 108434949 >>, << 0 - 2, 1, 5, 153434949 >>,
      << 0 - 2, 1, 8, 135000000 >>, << 0 - 2, 1, 13, 123690068 >>, << 0 - 2, 2, 4, 135000000 >>,
      << 0 - 2, 4, 5, 116565051 >>, << 0 - 2, 5, 8, 108434949 >>, << 0 - 2, 5, 52, 97125016 >>,
      << 0 - 1, 1, 2, 135000000 >>, << 0 - 1, 1, 5, 116565051 >>, << 0 - 1, 2, 5, 108434949 >>,
      << 0 - 1, 5, 13, 97125016 >>, << 0, 1, 1, 90000000 >>, << 0, 1, 4, 90000000 >>,
      << 0, 5, 5, 90000000 >>, << 1, 1, 2, 45000000 >>, << 1, 1, 5, 63434949 >>,
      << 1, 2, 5, 71565051 >>, << 1, 5, 13, 82874984 >>, << 2, 1, 5, 26565051 >>,
      << 2, 1, 8, 45000000 >>, << 2, 1, 13, 56309932 >>, << 2, 2, 4, 45000000 >>,
      << 3, 1, 13, 33690068 >>, << 3, 1, 18, 45000000 >>, << 3, 2, 5, 18434949 >>,
      << 3, 5, 18, 71565051 >>, << 4, 1, 52, 56309932 >>, << 5, 2, 13, 11309932 >>,
      << 6, 1, 52, 33690068 >>, << 6, 4, 13, 33690068 >>, << 6, 4, 18, 45000000 >>,
      << 6, 5, 8, 18434949 >>, << 8, 5, 13, 7125016 >>, << 9, 5, 18, 18434949 >>,
      << 10, 2, 52, 11309932 >>, << 10, 8, 13, 11309932 >>, << 15, 13, 18, 11309932 >>,
      << 16, 5, 52, 7125016 >>, << 20, 8, 52, 11309932 >>, << 30, 18, 52, 11309932 >> }

\* the angle for a cosAngle that is one unit in the last place inside of 1
\* or -1: Math.acos(0.9999999999999998) * 180 / Math.PI = 0.0000012074...
NextToOne == 1

\* Math.max(-1, Math.min(1, cosAngle)) for a cosAngle of the given sign whose
\* divisor lies `ulps` above the dot product's size: beyond 1 it becomes 1
clamp(sign, ulps) ==
    [ cos |-> IF ulps <= 0 THEN "one" ELSE "inside", sign |-> sign ]

calculateAngleDouble(point1, vertex, point3) ==
    LET vector1 == [ x |-> point1.x - vertex.x, y |-> point1.y - vertex.y ]
        vector2 == [ x |-> point3.x - vertex.x, y |-> point3.y - vertex.y ]
        dotProduct == vector1.x * vector2.x + vector1.y * vector2.y
        square1 == vector1.x * vector1.x + vector1.y * vector1.y
        square2 == vector2.x * vector2.x + vector2.y * vector2.y
        low == Min2(square1, square2)
        high == Max2(square1, square2)
    IN  IF dotProduct * dotProduct = square1 * square2
        THEN LET product == CHOOSE e \in CollinearProducts : e[1] = low /\ e[2] = high
                 clamped == clamp(IF dotProduct > 0 THEN 1 ELSE 0 - 1, product[3])
             IN  IF clamped.cos = "one"
                 THEN (IF clamped.sign > 0 THEN 0 ELSE 180 * Degree)
                 ELSE (IF clamped.sign > 0 THEN NextToOne ELSE 180 * Degree - NextToOne)
        ELSE (CHOOSE e \in AcosDegrees :
                e[1] = dotProduct /\ e[2] = low /\ e[3] = high)[4]

-----------------------------------------------------------------------------
(* smoothData *)

\* the smoothed values are kept in units of 1/SmoothUnit(windowSize): a window
\* has between 1 and 2 * floor(windowSize / 2) + 1 elements, and each of these
\* lengths divides it.
SmoothUnit(windowSize) == LcmUpTo(2 * (windowSize \div 2) + 1)

\* variant for C14: the window ends at i + half - 1
smoothData_Trailing(values, windowSize) ==
    IF Len(values) < windowSize
    THEN [ i \in 1..Len(values) |-> values[i] * SmoothUnit(windowSize) ]
    ELSE [ i \in 1..Len(values) |->
            LET start == Max2(0, (i - 1) - (windowSize \div 2))
                end == Min2(Len(values), Max2(i, (i - 1) + (windowSize \div 2)))
            IN  (SumRange(values, start + 1, end) * SmoothUnit(windowSize)) \div (end - start) ]

\* window.reduce((sum, val) => sum + val, 0) over values[start .. end - 1]
WindowSum(values, start, end) ==
    IF \E j \in (start + 1)..end : values[j] = NaN THEN NaN
    ELSE SumRange(values, start + 1, end)

smoothData(values, windowSize) ==
    IF Len(values) < windowSize
    THEN [ i \in 1..Len(values) |-> Times(values[i], SmoothUnit(windowSize)) ]
    ELSE [ i \in 1..Len(values) |->
            LET start == Max2(0, (i - 1) - (windowSize \div 2))
                end == Min2(Len(values), (i - 1) + (windowSize \div 2) + 1)
                sum == WindowSum(values, start, end)
            IN  IF sum = NaN THEN NaN
                ELSE (sum * SmoothUnit(windowSize)) \div (end - start) ]

-----------------------------------------------------------------------------
(* createCompositeAngleSignal *)

\* `angleConfig.weight || 1.0`: a weight that is not declared and a weight of
\* 0 are both falsy
Weight(angleConfig) ==
    IF angleConfig.weight = Undefined \/ angleConfig.weight = 0 THEN 1 ELSE angleConfig.weight

RECURSIVE TotalWeight(_, _)
TotalWeight(angleConfigs, n) ==
    IF n = 0 THEN 0 ELSE Weight(angleConfigs[n]) + TotalWeight(angleConfigs, n - 1)

\* the composite value is kept in units of 1/SignalUnit degree: every sum of
\* weights that can divide it divides SignalUnit.
SignalUnit(angleConfigs) == LcmUpTo(TotalWeight(angleConfigs, Len(angleConfigs)))

\* variant for C15: only the first landmark is looked for
Contributes_FirstOnly(pose, angleConfig) == HasLandmark(pose, angleConfig.points[1])

\* `!pose[p1] || !pose[p2] || !pose[p3]` is false
Contributes(pose, angleConfig) ==
    /\ HasLandmark(pose, angleConfig.points[1])
    /\ HasLandmark(pose, angleConfig.points[2])
    /\ HasLandmark(pose, angleConfig.points[3])

\* what pose[p] is beyond the end of the array: undefined
NoLandmark == [ undefined |-> TRUE ]

\* pose[p]
LandmarkAt(pose, p) == IF HasLandmark(pose, p) THEN pose[p] ELSE NoLandmark

\* calculateAngle reads .x and .y of its three arguments: a TypeError when
\* one of them is undefined
calculateAngleThrows(point1, vertex, point3) ==
    point1 = NoLandmark \/ vertex = NoLandmark \/ point3 = NoLandmark

\* calculateAngle(pose[p1], pose[p2], pose[p3]) raises an error
AngleOfThrows(pose, angleConfig) ==
    calculateAngleThrows(LandmarkAt(pose, angleConfig.points[1]),
                         LandmarkAt(pose, angleConfig.points[2]),
                         LandmarkAt(pose, angleConfig.points[3]))

\* calculateAngle(pose[p1], pose[p2], pose[p3]); no value when it throws
AngleOf(pose, angleConfig) ==
    IF AngleOfThrows(pose, angleConfig) THEN 0
    ELSE calculateAngle(pose[angleConfig.points[1]], pose[angleConfig.points[2]],
                        pose[angleConfig.points[3]])

\* createCompositeAngleSignal raises an error: pose[p1] of a pose that is
\* null, or calculateAngle on a landmark that is not there
createCompositeAngleSignalThrows(pose, angleConfigs) ==
    \/ pose = Null /\ Len(angleConfigs) > 0
    \/ \E n \in 1..Len(angleConfigs) :
          Contributes(pose, angleConfigs[n]) /\ AngleOfThrows(pose, angleConfigs[n])

RECURSIVE WeightedSum(_, _, _)
WeightedSum(pose, angleConfigs, n) ==
    IF n = 0 THEN [ compositeValue |-> 0, totalWeight |-> 0 ]
    ELSE LET rest == WeightedSum(pose, angleConfigs, n - 1)
         IN  IF ~Contributes(pose, angleConfigs[n]) THEN rest
             ELSE [ compositeValue |-> Plus(rest.compositeValue,
                                             Times(AngleOf(pose, angleConfigs[n]),
                                                   Weight(angleConfigs[n]))),
                    totalWeight |-> rest.totalWeight + Weight(angleConfigs[n]) ]

createCompositeAngleSignal(pose, angleConfigs) ==
    LET s == WeightedSum(pose, angleConfigs, Len(angleConfigs))
    IN  IF s.totalWeight > 0
        THEN ( IF s.compositeValue = NaN THEN NaN
               ELSE (s.compositeValue * SignalUnit(angleConfigs)) \div s.totalWeight )
        ELSE 0

-----------------------------------------------------------------------------
(* detectPeaksAndValleysAdvanced *)

prominenceThreshold == 15    \* percent: the default 0.15
smoothingWindow == 7         \* smoothData(values, 7)
minSamples == 5              \* values.length < 5
minTrendWindow == 3          \* Math.max(3, ...)

\* variant for C23: `<` for `<=`, a tie leaves the index a peak
isPeak_NonStrict(smoothed, i, trendWindow) ==
    \A j \in (0 - trendWindow)..trendWindow :
        j = 0 \/ ~(smoothed[i + 1] # NaN /\ smoothed[i + j + 1] # NaN
                   /\ smoothed[i + 1] < smoothed[i + j + 1])

isPeak(smoothed, i, trendWindow) ==
    \A j \in (0 - trendWindow)..trendWindow :
        j = 0 \/ ~LessEq(smoothed[i + 1], smoothed[i + j + 1])

\* variant for C28: `>` for `>=`, a tie leaves the index a valley
isValley_NonStrict(smoothed, i, trendWindow) ==
    \A j \in (0 - trendWindow)..trendWindow :
        j = 0 \/ ~(smoothed[i + 1] # NaN /\ smoothed[i + j + 1] # NaN
                   /\ smoothed[i + 1] > smoothed[i + j + 1])

isValley(smoothed, i, trendWindow) ==
    \A j \in (0 - trendWindow)..trendWindow :
        j = 0 \/ ~LessEq(smoothed[i + j + 1], smoothed[i + 1])

\* `if (list.length === 0 || i - list[list.length - 1] >= minDistance) list.push(i)`
\* variant for C5: every candidate is pushed
pushIfSpaced_Always(list, i, minDistance) == Append(list, i)

pushIfSpaced(list, i, minDistance) ==
    IF Len(list) = 0 \/ i - list[Len(list)] >= minDistance
    THEN Append(list, i) ELSE list

\* variant for C24: the prominence tests are left out
RECURSIVE scanExtrema_Ungated(_, _, _, _)
scanExtrema_Ungated(c, i, peaks, valleys) ==
    IF ~(i < Len(c.smoothed) - c.trendWindow)
    THEN [ peaks |-> peaks, valleys |-> valleys ]
    ELSE LET p == IF isPeak(c.smoothed, i, c.trendWindow)
                  THEN pushIfSpaced(peaks, i, c.minDistance) ELSE peaks
             v == IF isValley(c.smoothed, i, c.trendWindow)
                  THEN pushIfSpaced(valleys, i, c.minDistance) ELSE valleys
         IN  scanExtrema_Ungated(c, i + 1, p, v)

\* the loop `for (let i = trendWindow; i < smoothed.length - trendWindow; i++)`
\* from index i on; c holds the values computed before the loop.
RECURSIVE scanExtrema(_, _, _, _)
scanExtrema(c, i, peaks, valleys) ==
    IF ~(i < Len(c.smoothed) - c.trendWindow)
    THEN [ peaks |-> peaks, valleys |-> valleys ]
    ELSE LET current == c.smoothed[i + 1]
             p == IF /\ isPeak(c.smoothed, i, c.trendWindow)
                     /\ Greater(Times(Minus(current, c.min), 100), c.dynamicProminence)
                  THEN pushIfSpaced(peaks, i, c.minDistance) ELSE peaks
             v == IF /\ isValley(c.smoothed, i, c.trendWindow)
                     /\ Greater(Times(Minus(c.max, current), 100), c.dynamicProminence)
                  THEN pushIfSpaced(valleys, i, c.minDistance) ELSE valleys
         IN  scanExtrema(c, i + 1, p, v)

\* variant for C22: the trend window is 3 whatever minDistance is
detectPeaksAndValleysAdvanced_FixedWindow(values, minDistance) ==
    IF Len(values) < minSamples THEN [ peaks |-> << >>, valleys |-> << >> ]
    ELSE LET smoothed == smoothData(values, smoothingWindow)
             min == MathMin(smoothed)
             max == MathMax(smoothed)
             range == Minus(max, min)
         IN  scanExtrema([ smoothed |-> smoothed, min |-> min, max |-> max,
                           dynamicProminence |-> Times(range, prominenceThreshold),
                           trendWindow |-> minTrendWindow, minDistance |-> minDistance ],
                         minTrendWindow, << >>, << >>)

\* dynamicProminence is kept in hundredths: range * 15 for range * 0.15.
detectPeaksAndValleysAdvanced(values, minDistance) ==
    IF Len(values) < minSamples THEN [ peaks |-> << >>, valleys |-> << >> ]
    ELSE LET smoothed == smoothData(values, smoothingWindow)
             min == MathMin(smoothed)
             max == MathMax(smoothed)
             range == Minus(max, min)
             trendWindow == Max2(minTrendWindow, minDistance \div 2)
         IN  scanExtrema([ smoothed |-> smoothed, min |-> min, max |-> max,
                           dynamicProminence |-> Times(range, prominenceThreshold),
                           trendWindow |-> trendWindow, minDistance |-> minDistance ],
                         trendWindow, << >>, << >>)

-----------------------------------------------------------------------------
(* processRepSegment: the analysis of one RepSegment and the request it    *)
(* posts to /api/feedback (exerciseName and the option flags are left out: *)
(* they do not depend on the segment).  Angles are in tenths of a degree   *)
(* after `Math.round(x * 10) / 10`.                                        *)

\* Math.round(num / den), den > 0: the nearest integer, halves upwards
RoundDiv(num, den) == (2 * num + den) \div (2 * den)

\* variant for C26: one declared bound is enough
DeclaresBoth_Either(angleConfig) ==
    angleConfig.targetLowAngle # Undefined \/ angleConfig.targetHighAngle # Undefined

DeclaresBoth(angleConfig) ==
    angleConfig.targetLowAngle # Undefined /\ angleConfig.targetHighAngle # Undefined

RECURSIVE SumField(_, _, _)
SumField(seq, field, n) ==
    IF n = 0 THEN 0 ELSE seq[n][field] + SumField(seq, field, n - 1)

\* `let targetAngles` while nothing is assigned to it: the request is then
\* sent without the field
NoTargetAngles == [ undefined |-> TRUE ]

\* `let targetAngles` of processRepSegment
targetAnglesOf(cfg) ==
    LET angleConfigs == SelectSeq(cfg.anglePoints, DeclaresBoth)
    IN  IF Len(cfg.anglePoints) > 0 /\ Len(angleConfigs) > 0
        THEN [ min |-> RoundDiv(SumField(angleConfigs, "targetLowAngle", Len(angleConfigs)) * 10,
                                Len(angleConfigs)),
               max |-> RoundDiv(SumField(angleConfigs, "targetHighAngle", Len(angleConfigs)) * 10,
                                Len(angleConfigs)) ]
        ELSE NoTargetAngles

\* the requests processRepSegment starts: none when the segment has no angles
processRepSegment(repSegment, cfg) ==
    IF Len(repSegment.angles) = 0 THEN << >>
    ELSE LET angles == [ n \in 1..Len(repSegment.angles) |-> repSegment.angles[n].angle ]
             minAngle == SeqMin(angles)
             maxAngle == SeqMax(angles)
         IN  << [ repNumber |-> repSegment.repNumber,
                  duration |-> RoundDiv(repSegment.duration, 100),
                  angleRange |-> [ min |-> minAngle * 10, max |-> maxAngle * 10 ],
                  averageAngle |-> RoundDiv(SumRange(angles, 1, Len(angles)) * 10, Len(angles)),
                  rangeOfMotion |-> (maxAngle - minAngle) * 10,
                  targetAngles |-> targetAnglesOf(cfg) ] >>

-----------------------------------------------------------------------------
(* segmentReps *)

minFrames == 20          \* poseHistory.length < 20, values.length < 20
frameMs == 3333          \* 33.33 ms per frame, in hundredths of a millisecond

\* the angle samples one frame adds to angleDataHistory, definition by definition
RECURSIVE angleDataOf(_, _, _, _)
angleDataOf(pose, i, angleConfigs, n) ==
    IF n > Len(angleConfigs) THEN << >>
    ELSE ( IF Contributes(pose, angleConfigs[n])
           THEN << [ timestamp |-> i,
                     angle |-> AngleOf(pose, angleConfigs[n]),
                     jointPositions |->
                         [ point1 |-> LandmarkAt(pose, angleConfigs[n].points[1]),
                           point2 |-> LandmarkAt(pose, angleConfigs[n].points[2]),
                           point3 |-> LandmarkAt(pose, angleConfigs[n].points[3]) ] ] >>
           ELSE << >> )
         \o angleDataOf(pose, i, angleConfigs, n + 1)

\* the loop over poseHistory raises an error at some frame: in
\* createCompositeAngleSignal or in the calculateAngle of an angle sample
buildSignalThrows(history, cfg) ==
    \E i \in 1..Len(history) :
        LET pose == history[i]
        IN  /\ ~(pose = Null \/ pose = EmptyPose)
            /\ createCompositeAngleSignalThrows(pose, cfg.anglePoints)

\* the loop over poseHistory that fills `values` and `angleDataHistory`
RECURSIVE buildSignal(_, _, _, _, _)
buildSignal(history, cfg, i, values, angleDataHistory) ==
    IF ~(i < Len(history))
    THEN [ values |-> values, angleDataHistory |-> angleDataHistory ]
    ELSE LET pose == history[i + 1]
         IN  IF pose = Null \/ pose = EmptyPose
             THEN buildSignal(history, cfg, i + 1, values, angleDataHistory)
             ELSE LET compositeValue == createCompositeAngleSignal(pose, cfg.anglePoints)
                      finalValue == IF cfg.inverted THEN Minus(0, compositeValue)
                                    ELSE compositeValue
                  IN  buildSignal(history, cfg, i + 1, Append(values, finalValue),
                                  angleDataHistory \o angleDataOf(pose, i, cfg.anglePoints, 1))

\* allEvents.sort((a, b) => a.index - b.index): a stable sort by index
RECURSIVE insertByIndex(_, _)
insertByIndex(sorted, e) ==
    IF Len(sorted) = 0 \/ sorted[Len(sorted)].index <= e.index
    THEN Append(sorted, e)
    ELSE Append(insertByIndex(SubSeq(sorted, 1, Len(sorted) - 1), e), sorted[Len(sorted)])

RECURSIVE sortByIndex(_, _)
sortByIndex(events, n) ==
    IF n = 0 THEN << >> ELSE insertByIndex(sortByIndex(events, n - 1), events[n])

mergeEvents(peaks, valleys) ==
    LET allEvents == [ n \in 1..Len(peaks) |-> [ index |-> peaks[n], type |-> "peak" ] ]
                     \o [ n \in 1..Len(valleys) |-> [ index |-> valleys[n], type |-> "valley" ] ]
    IN  sortByIndex(allEvents, Len(allEvents))

\* variant for C10: the latest event of a run is kept
RECURSIVE dedupe_KeepLatest(_, _, _)
dedupe_KeepLatest(allEvents, n, validSequence) ==
    IF n > Len(allEvents) THEN validSequence
    ELSE dedupe_KeepLatest(allEvents, n + 1,
                IF Len(validSequence) = 0
                   \/ validSequence[Len(validSequence)].type # allEvents[n].type
                THEN Append(validSequence, allEvents[n])
                ELSE [ validSequence EXCEPT ![Len(validSequence)] = allEvents[n] ])

\* `for (const event of allEvents)`: keep an event whose type differs from the last kept
RECURSIVE dedupe(_, _, _)
dedupe(allEvents, n, validSequence) ==
    IF n > Len(allEvents) THEN validSequence
    ELSE dedupe(allEvents, n + 1,
                IF Len(validSequence) = 0
                   \/ validSequence[Len(validSequence)].type # allEvents[n].type
                THEN Append(validSequence, allEvents[n]) ELSE validSequence)

\* variant for C29: every change of type completes a rep
repCompleted_Either(initialDirection, prevEvent, currEvent) ==
    prevEvent.type # currEvent.type

\* variant for C9: the two directions exchanged
repCompleted_Opposite(initialDirection, prevEvent, currEvent) ==
    IF initialDirection = "down"
    THEN prevEvent.type = "peak" /\ currEvent.type = "valley"
    ELSE prevEvent.type = "valley" /\ currEvent.type = "peak"

repCompleted(initialDirection, prevEvent, currEvent) ==
    IF initialDirection = "down"
    THEN prevEvent.type = "valley" /\ currEvent.type = "peak"
    ELSE prevEvent.type = "peak" /\ currEvent.type = "valley"

\* variant for C11: the rep after lastProcessed is passed over as well
isNewRep_Skip(repCount, lastProcessed) == repCount > lastProcessed + 1

\* variant for C2: `>=` for `>`
isNewRep_OrLast(repCount, lastProcessed) == repCount >= lastProcessed

\* `if (repCount > lastProcessedRepCount)`: does this rep produce a segment?
isNewRep(repCount, lastProcessed) == repCount > lastProcessed

\* variant for C25: the rep is emitted only when its first frame has an
\* angle sample
repSegmentOf_FromSample(cfg, angleDataHistory, prevEvent, currEvent, repCount) ==
    LET startIndex == prevEvent.index
        endIndex == currEvent.index
        inRep(angleData) == angleData.timestamp >= startIndex /\ angleData.timestamp <= endIndex
        repAngles == SelectSeq(angleDataHistory, inRep)
    IN  IF Len(repAngles) > 0 /\ repAngles[1].timestamp = startIndex
        THEN << [ repNumber |-> repCount, exerciseType |-> cfg.name,
                  startIndex |-> startIndex, endIndex |-> endIndex,
                  angles |-> repAngles,
                  duration |-> (endIndex - startIndex) * frameMs ] >>
        ELSE << >>

\* the segment of the rep that ends with currEvent, as a list: empty when the
\* rep is not emitted
repSegmentOf(cfg, angleDataHistory, prevEvent, currEvent, repCount) ==
    IF Len(angleDataHistory) > 0
    THEN LET startIndex == prevEvent.index
             endIndex == currEvent.index
             inRep(angleData) == angleData.timestamp >= startIndex /\ angleData.timestamp <= endIndex
             repAngles == SelectSeq(angleDataHistory, inRep)
         IN  IF Len(repAngles) > 0
             THEN << [ repNumber |-> repCount, exerciseType |-> cfg.name,
                       startIndex |-> startIndex, endIndex |-> endIndex,
                       angles |-> repAngles,
                       duration |-> (endIndex - startIndex) * frameMs ] >>
             ELSE << >>
    ELSE << >>

\* the loop `for (let i = 1; i < validSequence.length; i++)`; st holds repCount,
\* newRepSegments and the feedback requests started so far
RECURSIVE countReps(_, _, _, _, _, _)
countReps(cfg, angleDataHistory, validSequence, lastProcessed, i, st) ==
    IF ~(i < Len(validSequence)) THEN st
    ELSE LET prevEvent == validSequence[i]
             currEvent == validSequence[i + 1]
         IN  IF ~repCompleted(cfg.initialDirection, prevEvent, currEvent)
             THEN countReps(cfg, angleDataHistory, validSequence, lastProcessed, i + 1, st)
             ELSE LET repCount == st.repCount + 1
                      seg == IF isNewRep(repCount, lastProcessed)
                             THEN repSegmentOf(cfg, angleDataHistory, prevEvent, currEvent, repCount)
                             ELSE << >>
                      req == IF Len(seg) > 0 THEN processRepSegment(seg[1], cfg) ELSE << >>
                  IN  countReps(cfg, angleDataHistory, validSequence, lastProcessed, i + 1,
                                [ repCount |-> repCount,
                                  newRepSegments |-> st.newRepSegments \o seg,
                                  requests |-> st.requests \o req ])

\* variant for C20: the floor of the detector, 5
tooFew_Five(length) == length < minSamples

\* variant for C4: the floor at 10
tooFew_Ten(length) == length < 10

\* `.length < 20`, of poseHistory and of values
tooFew(length) == length < minFrames

NoLocals ==
    [ values |-> << >>, angleDataHistory |-> << >>, peaks |-> << >>, valleys |-> << >>,
      allEvents |-> << >>, validSequence |-> << >> ]

\* segmentReps from the sort of the events to the return, with the signal
\* (sig) and the extrema (pv) it has by then
segmentEvents(cfg, lastProcessed, sig, threw, pv) ==
    LET allEvents == mergeEvents(pv.peaks, pv.valleys)
        validSequence == dedupe(allEvents, 1, << >>)
        st == countReps(cfg, sig.angleDataHistory, validSequence, lastProcessed, 1,
                        [ repCount |-> 0, newRepSegments |-> << >>,
                          requests |-> << >> ])
    IN  [ repCount |-> st.repCount, newRepSegments |-> st.newRepSegments,
          requests |-> st.requests,
          threw |-> threw,
          locals |-> [ values |-> sig.values,
                       angleDataHistory |-> sig.angleDataHistory,
                       peaks |-> pv.peaks, valleys |-> pv.valleys,
                       allEvents |-> allEvents,
                       validSequence |-> validSequence ] ]

\* segmentReps from the second length check to the return, with the signal
\* (sig) the loop over the frames has built
segmentSignal(cfg, lastProcessed, sig, threw) ==
    IF tooFew(Len(sig.values))
    THEN [ repCount |-> 0, newRepSegments |-> << >>, requests |-> << >>,
           threw |-> threw,
           locals |-> [ NoLocals EXCEPT !.values = sig.values,
                                        !.angleDataHistory = sig.angleDataHistory ] ]
    ELSE segmentEvents(cfg, lastProcessed, sig, threw,
                       detectPeaksAndValleysAdvanced(sig.values, cfg.minPeakDistance))

\* the return value {repCount, newRepSegments}, with the feedback requests the
\* call started (requests) and its locals at the return (locals); threw says
\* that the call raised an error instead of returning
segmentReps(history, cfg, lastProcessed) ==
    IF history = Null \/ tooFew(Len(history))
    THEN [ repCount |-> 0, newRepSegments |-> << >>, requests |-> << >>, locals |-> NoLocals,
           threw |-> FALSE ]
    ELSE segmentSignal(cfg, lastProcessed, buildSignal(history, cfg, 0, << >>, << >>),
                       buildSignalThrows(history, cfg))

-----------------------------------------------------------------------------
(* The person in front of the camera.  A source says what the next frame   *)
(* shows; every tracked joint is at the same angle.                        *)
(*   free    the joint moves Step degrees a frame, in runs of RunLens       *)
(*           frames, turning after each run                                 *)
(*   steady  the same with runs of SteadyRun frames; the detector may miss  *)
(*           the body in a frame (a no-detection frame)                     *)
(*   curl    one full curl over CurlFrames frames, 150 -> 45 -> 150, the    *)
(*           lowest angle at frame `turn`                                   *)
(*   wave    a sine wave over WaveFrames frames, amplitude 50 about 90,     *)
(*           period 30 frames, shifted by `phase` half frames               *)

RestAngle == 90
Step == 15
SteadyRun == 4
RunLens == { 3, 5 }
CurlFrames == 40
CurlTurns == 18..21
WaveFrames == 100
WavePhases == { 0, 15, 30, 45 }

\* 50 * sin(6 j degrees), j = 0..59, to the nearest degree
WaveTable ==
    << 0, 5, 10, 15, 20, 25, 29, 33, 37, 40, 43, 46, 48, 49, 50,
       50, 50, 49, 48, 46, 43, 40, 37, 33, 29, 25, 20, 15, 10, 5,
       0, 0 - 5, 0 - 10, 0 - 15, 0 - 20, 0 - 25, 0 - 29, 0 - 33, 0 - 37, 0 - 40, 0 - 43, 0 - 46, 0 - 48, 0 - 49, 0 - 50,
       0 - 50, 0 - 50, 0 - 49, 0 - 48, 0 - 46, 0 - 43, 0 - 40, 0 - 37, 0 - 33, 0 - 29, 0 - 25, 0 - 20, 0 - 15, 0 - 10, 0 - 5 >>

WaveAngle(phase, t) == 90 + WaveTable[((2 * t + phase) % 60) + 1]

CurlAngle(turn, t) ==
    IF t <= turn THEN 150 - RoundDiv(105 * t, turn)
    ELSE 45 + RoundDiv(105 * (t - turn), (CurlFrames - 1) - turn)

\* the composite signal of Scenario A is the tracked angle itself
wave_config == [ bicep_curl EXCEPT !.name = "wave", !.inverted = FALSE ]

\* what a steady source delivers in place of a pose now and then:
\* 1 an empty pose, 2 null, 3 a pose cut short
OddFrames == 1..3

Mover(kind) == [ kind |-> kind, angle |-> RestAngle, dir |-> 0, rem |-> 0, param |-> 0, empties |-> 0 ]
Script(kind, param) == [ kind |-> kind, angle |-> 0, dir |-> 0, rem |-> 0, param |-> param, empties |-> 0 ]

\* the next position of a moving joint: it goes on while the run lasts, then
\* turns (or starts) with a run of one of the lengths `runs`
MoverNext(src, runs) ==
    IF src.rem > 0
    THEN { [ src EXCEPT !.angle = src.angle + src.dir * Step, !.rem = src.rem - 1 ] }
    ELSE { [ src EXCEPT !.angle = src.angle + d * Step, !.dir = d, !.rem = r - 1 ] :
             d \in { 1, 0 - 1 } \ { src.dir }, r \in runs }

InRange(src) == src.angle >= 0 /\ src.angle <= 180

-----------------------------------------------------------------------------
(* The harness: segmentReps called on a growing history, with every         *)
(* configuration and every lastProcessedRepCount up to MaxLastProcessed,    *)
(* and called a second time on the same history with the repCount the first *)
(* call returned.  `call` is the result for the current poseHistory, with   *)
(* the requests the call started; the session's request log is not used.    *)

\* no call has returned yet
NoCall == [ repCount |-> Undefined, newRepSegments |-> << >>, requests |-> << >>,
            locals |-> NoLocals, threw |-> FALSE ]

Returned(r) == [ repCount |-> r.repCount, newRepSegments |-> r.newRepSegments ]

SessionIdle ==
    /\ currentReps = 0
    /\ maxRepsEverSeen = 0
    /\ microtasks = << >>
    /\ feedbackRequests = << >>
    /\ feedbackOutcomes = << >>
    /\ exerciseConfigCache = << >>
    /\ configCalls = { }

InitSegment ==
    /\ SessionIdle
    /\ call = NoCall
    /\ again = Returned(NoCall)
    /\ \/ /\ source = Mover("free")
          /\ exerciseConfig \in Configs
          /\ lastProcessedRepCount \in 0..MaxLastProcessed
          /\ poseHistory \in { Null, << >> }
       \/ /\ source \in { [ Mover("steady") EXCEPT !.param = odd ] : odd \in OddFrames }
          /\ exerciseConfig = bicep_curl
          /\ lastProcessedRepCount = 0
          /\ poseHistory = << >>
       \/ /\ source \in { Script("curl", turn) : turn \in CurlTurns }
          /\ exerciseConfig = bicep_curl
          /\ lastProcessedRepCount = 0
          /\ poseHistory = << >>
       \/ /\ source \in { Script("wave", phase) : phase \in WavePhases }
          /\ exerciseConfig = wave_config
          /\ lastProcessedRepCount = 0
          /\ poseHistory = << >>

\* variant for C16: the call keeps the configuration it was given in the
\* module's cache
Segment_Caching(history) ==
    /\ \E first \in { segmentReps(history, exerciseConfig, lastProcessedRepCount) } :
          /\ call' = first
          /\ \E second \in { segmentReps(history, exerciseConfig, first.repCount) } :
                again' = Returned(second)
    /\ exerciseConfigCache' = [ n \in { exerciseConfig.name } |-> exerciseConfig ]
    /\ UNCHANGED << exerciseConfig, lastProcessedRepCount, currentReps, maxRepsEverSeen,
                    microtasks, feedbackRequests, feedbackOutcomes, configCalls >>

\* segmentReps(history, exerciseConfig, lastProcessedRepCount), then once more
\* with the returned repCount as lastProcessedRepCount
Segment(history) ==
    /\ \E first \in { segmentReps(history, exerciseConfig, lastProcessedRepCount) } :
          /\ call' = first
          /\ \E second \in { segmentReps(history, exerciseConfig, first.repCount) } :
                again' = Returned(second)
    /\ UNCHANGED << exerciseConfig, lastProcessedRepCount, currentReps, maxRepsEverSeen,
                    microtasks, feedbackRequests, feedbackOutcomes, exerciseConfigCache,
                    configCalls >>

Feed(pose, src) ==
    \E history \in { Append(poseHistory, pose) } :
        /\ poseHistory' = history
        /\ source' = src
        /\ Segment(history)

\* the first call, on the history as given: null or empty
SegmentFirst ==
    /\ call = NoCall
    /\ UNCHANGED << poseHistory, source >>
    /\ Segment(poseHistory)

FeedFree ==
    /\ poseHistory # Null
    /\ source.kind = "free"
    /\ Len(poseHistory) < MaxFrames
    /\ \E src \in MoverNext(source, RunLens) :
          InRange(src) /\ Feed(PoseAt(exerciseConfig.anglePoints, src.angle), src)

FeedSteady ==
    /\ source.kind = "steady"
    /\ Len(poseHistory) < MaxFrames
    /\ \E src \in MoverNext(source, { SteadyRun }) :
          InRange(src) /\ Feed(PoseAt(exerciseConfig.anglePoints, src.angle), src)

\* a frame that is not a full pose, between two runs of the joint
FeedOdd(pose) ==
    /\ source.rem = 0
    /\ Len(poseHistory) < MaxFrames
    /\ source.empties < MaxEmptyFrames
    /\ Feed(pose, [ source EXCEPT !.empties = source.empties + 1 ])

\* a frame with no detection
FeedEmpty ==
    /\ source.kind = "steady"
    /\ source.param = 1
    /\ FeedOdd(EmptyPose)

\* a frame that is null
FeedNull ==
    /\ source.kind = "steady"
    /\ source.param = 2
    /\ FeedOdd(Null)

\* a frame whose pose is cut short
FeedShort ==
    /\ source.kind = "steady"
    /\ source.param = 3
    /\ FeedOdd(ShortPose)

FeedCurl ==
    /\ source.kind = "curl"
    /\ Len(poseHistory) < CurlFrames
    /\ Feed(PoseAt(exerciseConfig.anglePoints, CurlAngle(source.param, Len(poseHistory))), source)

FeedWave ==
    /\ source.kind = "wave"
    /\ Len(poseHistory) < WaveFrames
    /\ Feed(PoseAt(exerciseConfig.anglePoints, WaveAngle(source.param, Len(poseHistory))), source)

NextSegment ==
    \/ SegmentFirst
    \/ FeedFree
    \/ FeedSteady
    \/ FeedEmpty
    \/ FeedNull
    \/ FeedShort
    \/ FeedCurl
    \/ FeedWave

SpecSegment == InitSegment /\ [][NextSegment]_vars

-----------------------------------------------------------------------------
(* segmentReps on the histories of a camera that may have run for a while   *)
(* before the person steps into the picture.                                *)

BlankFrames == 6         \* no-detection frames before the first pose

Blank == [ t \in 1..BlankFrames |-> EmptyPose ]

InitEmission ==
    /\ SessionIdle
    /\ call = NoCall
    /\ again = Returned(NoCall)
    /\ source = Mover("free")
    /\ exerciseConfig \in Configs
    /\ lastProcessedRepCount \in 0..MaxLastProcessed
    /\ poseHistory \in { << >>, Blank }

NextEmission == 
    \/ FeedFree

SpecEmission == InitEmission /\ [][NextEmission]_vars

-----------------------------------------------------------------------------
(* segmentReps on the histories of one recording, from its first frame, for *)
(* the comparison of the configurations that read the signal upside down.    *)

InitInversion ==
    /\ SessionIdle
    /\ call = NoCall
    /\ again = Returned(NoCall)
    /\ source = Mover("free")
    /\ exerciseConfig \in Configs
    /\ lastProcessedRepCount = 0
    /\ poseHistory = << >>

NextInversion == 
    \/ FeedFree

SpecInversion == InitInversion /\ [][NextInversion]_vars

-----------------------------------------------------------------------------
(* segmentReps on histories in which the pose estimator puts two landmarks   *)
(* of a frame on the same spot.                                              *)

InitDegenerate ==
    /\ SessionIdle
    /\ call = NoCall
    /\ again = Returned(NoCall)
    /\ source \in { [ Mover("steady") EXCEPT !.param = kind ] : kind \in DegenerateKinds }
    /\ exerciseConfig \in Configs
    /\ lastProcessedRepCount = 0
    /\ poseHistory = << >>

\* a frame with coinciding landmarks, between two runs of the joint
FeedDegenerate ==
    /\ source.kind = "steady"
    /\ FeedOdd(DegeneratePose(exerciseConfig.anglePoints, source.angle, source.param))

NextDegenerate ==
    \/ FeedSteady
    \/ FeedDegenerate

SpecDegenerate == InitDegenerate /\ [][NextDegenerate]_vars

-----------------------------------------------------------------------------
(* The functions of workout-utils on their own: the arguments of one call   *)
(* are in `source`, what the call returned is in `call`.                    *)

Weights == { Undefined, 0, 1, 2 }    \* weight of an angle definition
JointAngles == { 30, 90, 150 }       \* degrees at a tracked joint
Samples == { 0, 10, 40 }             \* values handed to smoothData
Windows == 1..4                      \* windowSize handed to smoothData
MaxSamples == 6                      \* longest sequence handed to smoothData

left_elbow(weight) ==
    [ name |-> "left_elbow", points |-> << LEFT_SHOULDER, LEFT_ELBOW, LEFT_WRIST >>,
      weight |-> weight, targetLowAngle |-> Undefined, targetHighAngle |-> Undefined ]

right_elbow(weight) ==
    [ name |-> "right_elbow", points |-> << RIGHT_SHOULDER, RIGHT_ELBOW, RIGHT_WRIST >>,
      weight |-> weight, targetLowAngle |-> Undefined, targetHighAngle |-> Undefined ]

AngleConfigLists ==
    { << >> } \cup { << left_elbow(w) >> : w \in Weights }
              \cup { << left_elbow(w[1]), right_elbow(w[2]) >> : w \in Weights \X Weights }

ArmLandmarks ==
    { LEFT_SHOULDER, LEFT_ELBOW, LEFT_WRIST, RIGHT_SHOULDER, RIGHT_ELBOW, RIGHT_WRIST }

\* a pose with the left elbow at `left` degrees and the right elbow at
\* `right`, of which only the landmarks of `present` are there
ArmsPose(left, right, present) ==
    LET all == PoseAt(<< left_elbow(1) >>, left) @@ PoseAt(<< right_elbow(1) >>, right)
    IN  [ p \in present |-> all[p] ]

ArmsPoses ==
    { ArmsPose(a[1], a[2], present) : a \in JointAngles \X JointAngles,
                                      present \in SUBSET ArmLandmarks }

\* the vectors from the vertex to point1 and to point3
Vectors ==
    {
      [ x |-> 1, y |-> 0 ], [ x |-> 0 - 1, y |-> 0 ], [ x |-> 0, y |-> 1 ],
      [ x |-> 0, y |-> 0 - 2 ], [ x |-> 1, y |-> 1 ], [ x |-> 0 - 1, y |-> 0 - 1 ],
      [ x |-> 2, y |-> 2 ], [ x |-> 2, y |-> 3 ], [ x |-> 0 - 2, y |-> 0 - 3 ],
      [ x |-> 3, y |-> 3 ], [ x |-> 0 - 3, y |-> 0 - 3 ], [ x |-> 1, y |-> 2 ],
      [ x |-> 0 - 2, y |-> 1 ], [ x |-> 4, y |-> 6 ] }

Vertices == { [ x |-> 0, y |-> 0 ], [ x |-> 1, y |-> 0 - 2 ] }

PointTriples ==
    { [ fn |-> "calculateAngle", vertex |-> a[3],
        point1 |-> [ x |-> a[3].x + a[1].x, y |-> a[3].y + a[1].y ],
        point3 |-> [ x |-> a[3].x + a[2].x, y |-> a[3].y + a[2].y ] ] :
      a \in Vectors \X Vectors \X Vertices }

SampleSeqs == UNION { [ 1..n -> Samples ] : n \in 0..MaxSamples }

MaxSignal == 12                      \* longest signal handed to the detector
Levels == { 0, 40 }                  \* values of a signal
MinDistances == { 2, 5, 8, 12 }      \* minDistance handed to the detector

RippleLen == 10                      \* length of a ripple
RippleLevels == { 0, 3 }             \* values of a ripple
Spike == << 40, 0, 0 >>              \* what follows a ripple

\* the signals handed to the detector: every signal of two levels up to
\* MaxSignal values, and every low ripple followed by a spike
Signals ==
    UNION { [ 1..n -> Levels ] : n \in 0..MaxSignal }
        \cup { ripple \o Spike : ripple \in [ 1..RippleLen -> RippleLevels ] }

Targets == { Undefined, 0, 160 }      \* targetLowAngle, targetHighAngle of a definition
MaxDefinitions == 3                  \* angle definitions of a configuration

\* a configuration whose definitions declare the target angles `bounds`,
\* a list of pairs << targetLowAngle, targetHighAngle >>
TargetConfig(bounds) ==
    [ bicep_curl EXCEPT !.anglePoints =
        [ n \in 1..Len(bounds) |->
            [ (IF n % 2 = 1 THEN left_elbow(1) ELSE right_elbow(1))
                EXCEPT !.targetLowAngle = bounds[n][1], !.targetHighAngle = bounds[n][2] ] ] ]

TargetConfigs ==
    { TargetConfig(bounds) :
        bounds \in UNION { [ 1..n -> Targets \X Targets ] : n \in 0..MaxDefinitions } }

\* a segment of five frames with three angle samples, and one without samples
RepSegments ==
    { [ repNumber |-> 1, exerciseType |-> "bicep_curl", startIndex |-> 4, endIndex |-> 9,
        duration |-> 5 * frameMs, angles |-> angles ] :
      angles \in { << >>,
                   [ n \in 1..3 |->
                       [ timestamp |-> 3 + 2 * n, angle |-> 30 * n,
                         jointPositions |->
                           [ point1 |-> [ r |-> 1, theta |-> 0 ],
                             point2 |-> [ r |-> 0, theta |-> 0 ],
                             point3 |-> [ r |-> 1, theta |-> 30 * n ] ] ] ] } }

InitFunctions ==
    /\ SessionIdle
    /\ poseHistory = << >>
    /\ exerciseConfig = bicep_curl
    /\ lastProcessedRepCount = 0
    /\ call = NoCall
    /\ again = Returned(NoCall)
    /\ source \in { [ fn |-> "createCompositeAngleSignal", pose |-> a[1], angleConfigs |-> a[2] ] :
                        a \in ArmsPoses \X AngleConfigLists }
                \cup { [ fn |-> "smoothData", values |-> a[1], windowSize |-> a[2] ] :
                        a \in SampleSeqs \X Windows }
                \cup PointTriples
                \cup { [ fn |-> "detectPeaksAndValleysAdvanced", values |-> a[1],
                         minDistance |-> a[2] ] : a \in Signals \X MinDistances }
                \cup { [ fn |-> "processRepSegment", repSegment |-> a[1],
                         exerciseConfig |-> a[2] ] : a \in RepSegments \X TargetConfigs }

Returns(value) ==
    /\ call = NoCall
    /\ call' = [ fn |-> source.fn, value |-> value ]
    /\ UNCHANGED << poseHistory, exerciseConfig, lastProcessedRepCount, currentReps,
                    maxRepsEverSeen, microtasks, feedbackRequests, again, source,
                    feedbackOutcomes, exerciseConfigCache, configCalls >>

createCompositeAngleSignalCall ==
    /\ source.fn = "createCompositeAngleSignal"
    /\ Returns(createCompositeAngleSignal(source.pose, source.angleConfigs))

smoothDataCall ==
    /\ source.fn = "smoothData"
    /\ Returns(smoothData(source.values, source.windowSize))

calculateAngleCall ==
    /\ source.fn = "calculateAngle"
    /\ Returns(calculateAngleDouble(source.point1, source.vertex, source.point3))

processRepSegmentCall ==
    /\ source.fn = "processRepSegment"
    /\ Returns(processRepSegment(source.repSegment, source.exerciseConfig))

detectPeaksAndValleysAdvancedCall ==
    /\ source.fn = "detectPeaksAndValleysAdvanced"
    /\ Returns(detectPeaksAndValleysAdvanced(source.values, source.minDistance))

NextFunctions ==
    \/ createCompositeAngleSignalCall
    \/ smoothDataCall
    \/ calculateAngleCall
    \/ detectPeaksAndValleysAdvancedCall
    \/ processRepSegmentCall

SpecFunctions == InitFunctions /\ [][NextFunctions]_vars

-----------------------------------------------------------------------------
(* The exercise configuration system: exerciseConfigCache, getExerciseConfig, *)
(* generateExerciseConfig, clearExerciseConfigCache and processExerciseReps  *)
(* with and without a preloaded configuration.  An exercise name is a        *)
(* sequence of characters; the keys of the cache are strings.                *)

\* JavaScript null where a configuration is expected
NoConfig == [ null |-> TRUE ]

ExerciseNames ==
    { << "S", "q", "u", "a", "t" >>,
      << "B", "i", "c", "e", "p", " ", "C", "u", "r", "l" >>,
      << "l", "a", "t", "e", "r", "a", "l", " ", "r", "a", "i", "s", "e" >> }

\* the strings that normalised names spell
Texts ==
    [ text \in { "squat", "bicep_curl", "lateral_raise" } |->
        CASE text = "squat" -> << "s", "q", "u", "a", "t" >>
          [] text = "bicep_curl" -> << "b", "i", "c", "e", "p", "_", "c", "u", "r", "l" >>
          [] text = "lateral_raise" -> << "l", "a", "t", "e", "r", "a", "l", "_", "r", "a", "i", "s", "e" >> ]

Text(characters) == CHOOSE text \in DOMAIN Texts : Texts[text] = characters

LowerCase ==
    { "a", "b", "c", "d", "e", "f", "g", "h", "i", "j", "k", "l", "m",
      "n", "o", "p", "q", "r", "s", "t", "u", "v", "w", "x", "y", "z" }

Digits == { "0", "1", "2", "3", "4", "5", "6", "7", "8", "9" }

toLowerCase(c) ==
    CASE c = "B" -> "b" [] c = "C" -> "c" [] c = "L" -> "l" [] c = "R" -> "r"
      [] c = "S" -> "s" [] OTHER -> c

\* exerciseName.toLowerCase().replace(/[^a-z0-9]/g, '_')
Normalize(exerciseName) ==
    [ i \in 1..Len(exerciseName) |->
        IF toLowerCase(exerciseName[i]) \in LowerCase \cup Digits
        THEN toLowerCase(exerciseName[i]) ELSE "_" ]

\* the entries of PREDEFINED_EXERCISE_CONFIGS that the model has
PREDEFINED_EXERCISE_CONFIGS ==
    [ key \in { "bicep_curl", "squat" } |-> IF key = "squat" THEN squat ELSE bicep_curl ]

\* cache.set(key, config)
CacheSet(cache, key, config) ==
    [ k \in DOMAIN cache \cup { key } |-> IF k = key THEN config ELSE cache[k] ]

\* how the request of generateExerciseConfig can end
GenerateOutcomes == { "config", "notOk", "noSuccess", "exception" }

\* generateExerciseConfig: the configuration of the response, or null
generateExerciseConfig(outcome) ==
    IF outcome = "config" THEN generated_config ELSE NoConfig

\* getExerciseConfig up to its first await: the configuration it returns
\* (awaits FALSE) or the request it waits for (awaits TRUE), the cache as it
\* leaves it, and what it did
getExerciseConfig(exerciseName, cache) ==
    LET normalizedName == Text(Normalize(exerciseName))
    IN  IF normalizedName \in DOMAIN cache
        THEN [ config |-> cache[normalizedName], cache |-> cache,
               effects |-> { "has" }, awaits |-> FALSE ]
        ELSE IF normalizedName \in DOMAIN PREDEFINED_EXERCISE_CONFIGS
        THEN [ config |-> PREDEFINED_EXERCISE_CONFIGS[normalizedName],
               cache |-> CacheSet(cache, normalizedName,
                                  PREDEFINED_EXERCISE_CONFIGS[normalizedName]),
               effects |-> { "has", "set" }, awaits |-> FALSE ]
        ELSE [ config |-> NoConfig, cache |-> cache,
               effects |-> { "has", "fetch" }, awaits |-> TRUE ]

\* variant for C17: the cache is asked first, the preloaded configuration is
\* the fallback
configFor_CacheFirst(exerciseName, preloadedConfig, cache) ==
    IF preloadedConfig # NoConfig /\ getExerciseConfig(exerciseName, cache).awaits
    THEN [ config |-> preloadedConfig, cache |-> cache, effects |-> { "has" }, awaits |-> FALSE ]
    ELSE getExerciseConfig(exerciseName, cache)

\* `preloadedConfig || await getExerciseConfig(exerciseName, exerciseDescription)`
configFor(exerciseName, preloadedConfig, cache) ==
    IF preloadedConfig # NoConfig
    THEN [ config |-> preloadedConfig, cache |-> cache, effects |-> { }, awaits |-> FALSE ]
    ELSE getExerciseConfig(exerciseName, cache)

\* what processExerciseReps returns once it has exerciseConfig, with the
\* arguments of the call and what the call did to get the configuration
processExerciseRepsReturns(c, exerciseConfig_, effects) ==
    IF exerciseConfig_ = NoConfig
    THEN [ repCount |-> 0, newRepSegments |-> << >>, configUsed |-> NoConfig,
           exerciseName |-> c.exerciseName, preloadedConfig |-> c.preloadedConfig,
           lastProcessed |-> c.lastProcessed, effects |-> effects ]
    ELSE LET result == segmentReps(poseHistory, exerciseConfig_, c.lastProcessed)
         IN  [ repCount |-> result.repCount, newRepSegments |-> result.newRepSegments,
               configUsed |-> exerciseConfig_,
               exerciseName |-> c.exerciseName, preloadedConfig |-> c.preloadedConfig,
               lastProcessed |-> c.lastProcessed, effects |-> effects ]

\* the elbow angles of the history the calls are made on: 20 frames of a
\* quick up and down
ConfigAngles ==
    << 75, 60, 45, 30, 15, 30, 45, 60, 45, 30, 15, 30, 45, 60, 45, 30, 15, 30, 45, 60 >>

\* the preloadedConfig the calls are made with: the configuration the page
\* got from the server, or none
PreloadedConfigs == { generated_config, NoConfig }

\* the lastProcessedRepCount the calls are made with
LastProcessedGiven == { 0, 1 }

ConfigHistory ==
    [ t \in 1..Len(ConfigAngles) |-> PoseAt(bicep_curl.anglePoints, ConfigAngles[t]) ]

InitConfig ==
    /\ SessionIdle
    /\ poseHistory = ConfigHistory
    /\ exerciseConfig = bicep_curl
    /\ lastProcessedRepCount = 0
    /\ call = NoCall
    /\ again = Returned(NoCall)
    /\ source = Mover("free")

\* a call at `await generateExerciseConfig(...)`, its request in flight
Waiting(c) ==
    [ exerciseName |-> c.exerciseName, preloadedConfig |-> c.preloadedConfig,
      lastProcessed |-> c.lastProcessed, cleared |-> FALSE ]

\* processExerciseReps is called and runs to its return or to its await
processExerciseRepsCall ==
    \E exerciseName \in ExerciseNames, preloadedConfig \in PreloadedConfigs,
       lastProcessed \in LastProcessedGiven :
        LET c == [ exerciseName |-> exerciseName, preloadedConfig |-> preloadedConfig,
                   lastProcessed |-> lastProcessed ]
        IN  \E got \in { configFor(exerciseName, preloadedConfig, exerciseConfigCache) } :
              /\ exerciseConfigCache' = got.cache
              /\ IF got.awaits
                 THEN /\ configCalls' = configCalls \cup { Waiting(c) }
                      /\ call' = call
                 ELSE /\ configCalls' = configCalls
                      /\ call' = processExerciseRepsReturns(c, got.config, got.effects)
              /\ UNCHANGED << poseHistory, exerciseConfig, lastProcessedRepCount, currentReps,
                              maxRepsEverSeen, microtasks, feedbackRequests, again, source,
                              feedbackOutcomes >>

\* the request of generateExerciseConfig ends and the call that waited for
\* it goes on to its return
generateExerciseConfigSettles ==
    \E c \in configCalls, outcome \in GenerateOutcomes :
        LET normalizedName == Text(Normalize(c.exerciseName))
            generatedConfig == generateExerciseConfig(outcome)
            named == [ generatedConfig EXCEPT !.name = normalizedName ]
        IN  /\ configCalls' = configCalls \ { c }
            /\ IF generatedConfig # NoConfig
               THEN /\ exerciseConfigCache' = CacheSet(exerciseConfigCache, normalizedName, named)
                    /\ call' = processExerciseRepsReturns(c, named, { "has", "fetch", "set" })
               ELSE /\ exerciseConfigCache' = exerciseConfigCache
                    /\ call' = processExerciseRepsReturns(c, NoConfig, { "has", "fetch" })
            /\ UNCHANGED << poseHistory, exerciseConfig, lastProcessedRepCount, currentReps,
                            maxRepsEverSeen, microtasks, feedbackRequests, again, source,
                            feedbackOutcomes >>

clearExerciseConfigCache ==
    /\ exerciseConfigCache' = << >>
    /\ configCalls' = { [ c EXCEPT !.cleared = TRUE ] : c \in configCalls }
    /\ UNCHANGED << poseHistory, exerciseConfig, lastProcessedRepCount, currentReps,
                    maxRepsEverSeen, microtasks, feedbackRequests, call, again, source,
                    feedbackOutcomes >>

NextConfig ==
    \/ processExerciseRepsCall
    \/ generateExerciseConfigSettles
    \/ clearExerciseConfigCache

SpecConfig == InitConfig /\ [][NextConfig]_vars

-----------------------------------------------------------------------------
(* The tracking session of routes/(app)/form-analysis: one frame of the     *)
(* video is one task of the event loop; the callback given to               *)
(* processExerciseReps(...).then is a microtask, run before the next task.  *)

minHistory == 15         \* poseHistory.length > 15

\* processExerciseReps with a preloaded configuration: `preloadedConfig ||`
\* short-circuits, so getExerciseConfig is not called and nothing is awaited
processExerciseReps(history, lastProcessed, preloadedConfig) ==
    segmentReps(history, preloadedConfig, lastProcessed)

\* the page with a workout exercise selected and detection running
Init ==
    /\ SessionIdle
    /\ poseHistory = << >>
    /\ exerciseConfig \in Configs
    /\ lastProcessedRepCount = 0
    /\ call = NoCall
    /\ again = Returned(NoCall)
    /\ source = Mover("free")

\* a task starts only when no microtask is left
TaskReady == microtasks = << >>

\* a frame in which landmarks are detected
processVideoFrame ==
    /\ TaskReady
    /\ Len(poseHistory) < MaxFrames
    /\ \E src \in MoverNext(source, RunLens) :
          LET history == Append(poseHistory, PoseAt(exerciseConfig.anglePoints, src.angle))
              result == processExerciseReps(history, lastProcessedRepCount, exerciseConfig)
          IN  /\ InRange(src)
              /\ source' = src
              /\ poseHistory' = history
              /\ IF Len(history) > minHistory
                 THEN /\ call' = result
                      /\ feedbackRequests' = feedbackRequests \o result.requests
                      /\ feedbackOutcomes' = feedbackOutcomes
                                                \o [ n \in 1..Len(result.requests) |-> "pending" ]
                      /\ microtasks' = Append(microtasks, Returned(result))
                 ELSE UNCHANGED << call, feedbackRequests, feedbackOutcomes, microtasks >>
    /\ UNCHANGED << exerciseConfig, lastProcessedRepCount, currentReps, maxRepsEverSeen, again,
                    exerciseConfigCache, configCalls >>

\* a frame in which no landmarks are detected: only the canvas is redrawn
processVideoFrameNoPose ==
    /\ TaskReady
    /\ UNCHANGED vars

\* variant for C3: lastProcessedRepCount is not updated
thenCounters_Unthreaded(result) ==
    IF result.repCount > maxRepsEverSeen
    THEN [ maxRepsEverSeen |-> result.repCount, currentReps |-> result.repCount,
           lastProcessedRepCount |-> lastProcessedRepCount ]
    ELSE [ maxRepsEverSeen |-> maxRepsEverSeen, currentReps |-> currentReps,
           lastProcessedRepCount |-> lastProcessedRepCount ]

\* variant for C27: the displayed count follows every result
thenCounters_Latest(result) ==
    IF result.repCount > maxRepsEverSeen
    THEN [ maxRepsEverSeen |-> result.repCount, currentReps |-> result.repCount,
           lastProcessedRepCount |-> result.repCount ]
    ELSE [ maxRepsEverSeen |-> maxRepsEverSeen, currentReps |-> result.repCount,
           lastProcessedRepCount |-> lastProcessedRepCount ]

\* the counters after `.then((result) => ...)` has run on result
thenCounters(result) ==
    IF result.repCount > maxRepsEverSeen
    THEN [ maxRepsEverSeen |-> result.repCount, currentReps |-> result.repCount,
           lastProcessedRepCount |-> result.repCount ]
    ELSE [ maxRepsEverSeen |-> maxRepsEverSeen, currentReps |-> currentReps,
           lastProcessedRepCount |-> lastProcessedRepCount ]

thenCallback ==
    /\ microtasks # << >>
    /\ maxRepsEverSeen' = thenCounters(Head(microtasks)).maxRepsEverSeen
    /\ currentReps' = thenCounters(Head(microtasks)).currentReps
    /\ lastProcessedRepCount' = thenCounters(Head(microtasks)).lastProcessedRepCount
    /\ microtasks' = Tail(microtasks)
    /\ UNCHANGED << poseHistory, exerciseConfig, feedbackRequests, call, again, source,
                    feedbackOutcomes, exerciseConfigCache, configCalls >>

\* the Reset button, pressed while the person stands at rest between two
\* runs; feedbackRequests keeps the requests since the last reset
resetRepCount ==
    /\ TaskReady
    /\ source.angle = RestAngle /\ source.rem = 0
    /\ poseHistory' = << >>
    /\ currentReps' = 0
    /\ maxRepsEverSeen' = 0
    /\ lastProcessedRepCount' = 0
    /\ feedbackRequests' = << >>
    /\ feedbackOutcomes' = << >>
    /\ call' = NoCall
    /\ UNCHANGED << exerciseConfig, microtasks, again, source, exerciseConfigCache, configCalls >>

\* what the fetch of processRepSegment can come to
FetchOutcomes == { "ok", "notOk", "rejected", "badLine" }

\* how processRepSegment ends on an outcome of its fetch: the promise it
\* returned is fulfilled in every case, the error being handled inside.
\*   ok        the stream is read and the ai-feedback event dispatched
\*   notOk     `else` of `if (response.ok)`: console.error
\*   rejected  fetch or reader.read() rejects: the outer `catch (error)`
\*   badLine   JSON.parse throws on a line: the inner `catch (parseError)`,
\*             and the loop goes on with the next line
processRepSegmentEnds(outcome) ==
    CASE outcome = "ok" -> [ promise |-> "fulfilled", handled |-> "shown" ]
      [] outcome = "notOk" -> [ promise |-> "fulfilled", handled |-> "logged" ]
      [] outcome = "rejected" -> [ promise |-> "fulfilled", handled |-> "caught" ]
      [] outcome = "badLine" -> [ promise |-> "fulfilled", handled |-> "skipped" ]

\* `processRepSegment(...).catch(error => console.error(...))` in segmentReps:
\* a rejection of the promise would end in the handler given to catch; the
\* request is "handled" when no error is left over
dispatchEnds(outcome) ==
    IF processRepSegmentEnds(outcome).promise \in { "fulfilled", "rejected" }
       /\ processRepSegmentEnds(outcome).handled \in { "shown", "logged", "caught", "skipped" }
    THEN "handled"
    ELSE "unhandled"

\* variant for C12: a request that fails is dispatched again by the next
\* frame, the rep being taken back from lastProcessedRepCount
feedbackSettles_Retry ==
    /\ TaskReady
    /\ \E n \in 1..Len(feedbackOutcomes), outcome \in FetchOutcomes :
          /\ feedbackOutcomes[n] = "pending"
          /\ feedbackOutcomes' = [ feedbackOutcomes EXCEPT ![n] = dispatchEnds(outcome) ]
          /\ lastProcessedRepCount' = IF outcome = "ok" THEN lastProcessedRepCount
                                      ELSE feedbackRequests[n].repNumber - 1
    /\ UNCHANGED << poseHistory, exerciseConfig, currentReps, maxRepsEverSeen, microtasks,
                    feedbackRequests, call, again, source, exerciseConfigCache, configCalls >>

\* the request of one dispatched segment comes to an end, in a later task
feedbackSettles ==
    /\ TaskReady
    /\ \E n \in 1..Len(feedbackOutcomes), outcome \in FetchOutcomes :
          /\ feedbackOutcomes[n] = "pending"
          /\ feedbackOutcomes' = [ feedbackOutcomes EXCEPT ![n] = dispatchEnds(outcome) ]
    /\ UNCHANGED << poseHistory, exerciseConfig, lastProcessedRepCount, currentReps,
                    maxRepsEverSeen, microtasks, feedbackRequests, call, again, source,
                    exerciseConfigCache, configCalls >>

Next ==
    \/ processVideoFrame
    \/ processVideoFrameNoPose
    \/ thenCallback
    \/ resetRepCount
    \/ feedbackSettles

Spec == Init /\ [][Next]_vars

-----------------------------------------------------------------------------
(* Properties.  Under SpecSegment, `call` is the result of segmentReps on    *)
(* poseHistory and `again` the result of the second call on it.             *)

Called == call # NoCall

\* C1: segmentReps never returns a smaller repCount on a history than on the
\* same history without its last frame, whatever lastProcessedRepCount is.
C1_MonotonicCount ==
    [][Called => call'.repCount >= call.repCount]_vars

\* C2: a second call on the same history, with lastProcessedRepCount set to
\* the repCount the first call returned, returns that repCount again and no
\* new segment.
C2_AtMostOnce ==
    Called => again.repCount = call.repCount /\ again.newRepSegments = << >>

\* the first call emitted segments and the second did not
C2_Witness ==
    /\ Called
    /\ Len(call.newRepSegments) > 0
    /\ again.newRepSegments = << >>

\* C3: between two resets of the session no rep number is dispatched to the
\* feedback service twice, however frames and completions of
\* processExerciseReps follow each other.
C3_EmittedOnce ==
    \A m, n \in 1..Len(feedbackRequests) :
        feedbackRequests[m].repNumber = feedbackRequests[n].repNumber => m = n

\* a rep was dispatched, its count was threaded back, and a later frame saw
\* the rep again without a new segment
C3_Witness ==
    /\ Len(feedbackRequests) > 0
    /\ lastProcessedRepCount > 0
    /\ microtasks # << >>
    /\ Head(microtasks).repCount = lastProcessedRepCount
    /\ Head(microtasks).newRepSegments = << >>

\* C4: on a history that is null or shorter than 20 frames segmentReps
\* returns repCount 0 and no segment, and starts no feedback request.
C4_InsufficientData ==
    (Called /\ (poseHistory = Null \/ Len(poseHistory) < minFrames)) =>
        /\ call.repCount = 0
        /\ call.newRepSegments = << >>
        /\ call.requests = << >>

\* a call on 19 frames of a moving joint
C4_Witness ==
    /\ Called
    /\ poseHistory # Null
    /\ Len(poseHistory) = minFrames - 1
    /\ \E n \in 1..(Len(poseHistory) - 1) : poseHistory[n] # poseHistory[n + 1]

\* the indices of list are strictly ascending and any two are minDistance apart
Spaced(list, minDistance) ==
    \A m, n \in 1..Len(list) :
        m < n => list[m] < list[n] /\ list[n] - list[m] >= minDistance

\* C5: the peaks the detector returns are strictly ascending and at least
\* minPeakDistance apart, and so are the valleys.
C5_MinimumSpacing ==
    /\ Spaced(call.locals.peaks, exerciseConfig.minPeakDistance)
    /\ Spaced(call.locals.valleys, exerciseConfig.minPeakDistance)

\* two peaks exactly minPeakDistance apart
C5_Witness ==
    \E n \in 1..(Len(call.locals.peaks) - 1) :
        call.locals.peaks[n + 1] - call.locals.peaks[n] = exerciseConfig.minPeakDistance

\* C6: a history of at least 20 frames with empty frames among the valid
\* ones gives a composite signal with one value per frame, the value 0 at
\* each empty frame, and no angle sample for an empty frame.
C6_EmptyFrameIsZero ==
    (Called /\ poseHistory # Null /\ Len(poseHistory) >= minFrames) =>
        /\ Len(call.locals.values) = Len(poseHistory)
        /\ \A n \in 1..Len(poseHistory) :
              poseHistory[n] = EmptyPose =>
                  /\ call.locals.values[n] = 0
                  /\ \A a \in 1..Len(call.locals.angleDataHistory) :
                        call.locals.angleDataHistory[a].timestamp # n - 1

\* C7: one full curl, 150 -> 45 -> 150 over 40 frames, with the bicep curl
\* configuration and lastProcessedRepCount 0 gives repCount 1 and one segment.
C7_SingleCurl ==
    (source.kind = "curl" /\ Len(poseHistory) = CurlFrames) =>
        call.repCount = 1 /\ Len(call.newRepSegments) = 1

\* C8: a wave of period 30 frames and amplitude 50 about 90, over 100 frames,
\* with minPeakDistance 8 and initialDirection "down" gives exactly 3 reps.
C8_PeriodicWave ==
    (source.kind = "wave" /\ Len(poseHistory) = WaveFrames) => call.repCount = 3

\* the adjacent pairs of events of types first, second
Transitions(events, first, second) ==
    { n \in 1..(Len(events) - 1) : events[n].type = first /\ events[n + 1].type = second }

\* C9: repCount is the number of valley -> peak pairs of adjacent events of
\* validSequence when initialDirection is "down", and of peak -> valley pairs
\* when it is "up".
C9_TransitionRule ==
    Called =>
        call.repCount =
            IF exerciseConfig.initialDirection = "down"
            THEN Cardinality(Transitions(call.locals.validSequence, "valley", "peak"))
            ELSE Cardinality(Transitions(call.locals.validSequence, "peak", "valley"))

\* reps were counted in a sequence that also holds the opposite transition
C9_Witness ==
    /\ call.repCount > 0
    /\ exerciseConfig.initialDirection = "up"
    /\ Transitions(call.locals.validSequence, "valley", "peak") # { }

\* the places in events where a run of events of one type starts
RunStarts(events) ==
    { n \in 1..Len(events) : n = 1 \/ events[n - 1].type # events[n].type }

\* the m-th smallest member of a set of numbers
Nth(set, m) == CHOOSE n \in set : Cardinality({ x \in set : x < n }) = m - 1

\* C10: validSequence holds, in the order of the merged list, exactly the
\* first event of each run of same-type events of the merged list: no two
\* adjacent events of it have the same type, its frame indices ascend, and
\* its first event is the first merged event.
C10_Alternation ==
    LET allEvents == call.locals.allEvents
        validSequence == call.locals.validSequence
    IN  /\ Len(validSequence) = Cardinality(RunStarts(allEvents))
        /\ \A m \in 1..Len(validSequence) :
              validSequence[m] = allEvents[Nth(RunStarts(allEvents), m)]
        /\ \A m \in 1..(Len(validSequence) - 1) :
              /\ validSequence[m].type # validSequence[m + 1].type
              /\ validSequence[m].index < validSequence[m + 1].index
        /\ Len(allEvents) > 0 => validSequence[1] = allEvents[1]

\* two adjacent events of one type in the merged list, of which one is kept
C10_Witness ==
    /\ Len(call.locals.validSequence) >= 2
    /\ \E n \in 1..(Len(call.locals.allEvents) - 1) :
          call.locals.allEvents[n].type = call.locals.allEvents[n + 1].type

\* C11: lastProcessedRepCount only filters what is emitted: the repCount is
\* the one returned for lastProcessedRepCount 0, newRepSegments is the list
\* returned for 0 without the segments numbered up to lastProcessedRepCount,
\* and the numbers emitted ascend strictly within
\* lastProcessedRepCount + 1 .. repCount.
C11_FilterOnly ==
    LET unfiltered == segmentReps(poseHistory, exerciseConfig, 0)
        After(segment) == segment.repNumber > lastProcessedRepCount
        AfterAll(segment) == segment.repNumber > call.repCount
    IN  Called =>
          /\ call.repCount = unfiltered.repCount
          /\ call.newRepSegments = SelectSeq(unfiltered.newRepSegments, After)
          /\ again.newRepSegments = SelectSeq(unfiltered.newRepSegments, AfterAll)
          /\ \A n \in 1..Len(call.newRepSegments) :
                /\ call.newRepSegments[n].repNumber > lastProcessedRepCount
                /\ call.newRepSegments[n].repNumber <= call.repCount
                /\ n > 1 => call.newRepSegments[n - 1].repNumber
                               < call.newRepSegments[n].repNumber

\* with lastProcessedRepCount 1, two reps were counted and only the second emitted
C11_Witness ==
    /\ lastProcessedRepCount = 1
    /\ call.repCount = 2
    /\ Len(call.newRepSegments) = 1
    /\ call.newRepSegments[1].repNumber = 2

Contributing(pose, angleConfigs) ==
    { n \in 1..Len(angleConfigs) :
        { angleConfigs[n].points[1], angleConfigs[n].points[2],
          angleConfigs[n].points[3] } \subseteq DOMAIN pose }

\* the weight a definition declares, 1 when it declares none
DeclaredWeight(angleConfig) ==
    IF angleConfig.weight = Undefined THEN 1 ELSE angleConfig.weight

RECURSIVE SumOver(_, _, _)
SumOver(set, f(_), upTo) ==
    IF upTo = 0 THEN 0
    ELSE (IF upTo \in set THEN f(upTo) ELSE 0) + SumOver(set, f, upTo - 1)

\* C13: the composite value of a pose is the mean of the angles of the
\* contributing definitions weighted by their declared weights (1 for a
\* definition that declares none), and 0 when no definition contributes.
\* The value is in units of 1/SignalUnit degree.
C13_WeightedMean ==
    (call # NoCall /\ source.fn = "createCompositeAngleSignal") =>
        LET pose == source.pose
            angleConfigs == source.angleConfigs
            contributing == Contributing(pose, angleConfigs)
            W(n) == DeclaredWeight(angleConfigs[n])
            AW(n) == AngleOf(pose, angleConfigs[n]) * DeclaredWeight(angleConfigs[n])
            weights == SumOver(contributing, W, Len(angleConfigs))
            angles == SumOver(contributing, AW, Len(angleConfigs))
        IN  IF contributing = { } THEN call.value = 0
            ELSE call.value * weights = angles * SignalUnit(angleConfigs)

\* C14: smoothData returns its input when it is shorter than the window, and
\* otherwise a sequence of the same length whose element i is the mean of the
\* input at the indices max(0, i - half) .. min(length - 1, i + half), with
\* half = floor(windowSize / 2).  Values are in units of 1/SmoothUnit.
C14_SmootherContract ==
    (call # NoCall /\ source.fn = "smoothData") =>
        LET values == source.values
            w == source.windowSize
            half == w \div 2
            Around(i) == { j \in 1..Len(values) : j >= i - half /\ j <= i + half }
            At(j) == values[j]
        IN  /\ Len(call.value) = Len(values)
            /\ Len(values) < w =>
                  \A i \in 1..Len(values) : call.value[i] = values[i] * SmoothUnit(w)
            /\ Len(values) >= w =>
                  \A i \in 1..Len(values) :
                     call.value[i] * Cardinality(Around(i))
                        = SumOver(Around(i), At, Len(values)) * SmoothUnit(w)

\* a window is clipped at both ends of a sequence that is long enough to
\* have a full window in the middle
C14_Witness ==
    /\ call # NoCall
    /\ source.fn = "smoothData"
    /\ source.windowSize = 3
    /\ source.values = << 0, 10, 40, 40, 10 >>
    /\ call.value = << 30, 100, 180, 180, 150 >>      \* sixths: 5, 50/3, 30, 30, 25

\* C15: on a history whose frames may be null, empty or shorter than the
\* landmark indices of the configuration, segmentReps raises no error and
\* returns a count and a list of segments.
C15_NoThrow ==
    Called =>
        /\ ~call.threw
        /\ call.repCount \in Nat
        /\ DOMAIN call.newRepSegments = 1..Len(call.newRepSegments)
        /\ Len(call.newRepSegments) <= call.repCount

\* a call went through the loop over a history of 20 frames or more with a
\* short pose in it
C15_Witness ==
    /\ Called
    /\ poseHistory # Null
    /\ Len(poseHistory) >= minFrames
    /\ \E n \in 1..Len(poseHistory) : poseHistory[n] = ShortPose
    /\ Len(call.locals.values) >= minFrames

C17_PreloadedBypass ==
    /\ []((call # NoCall /\ call.configUsed = NoConfig) =>
            call.repCount = 0 /\ call.newRepSegments = << >>)
    /\ [][ (call' # call /\ call'.preloadedConfig # NoConfig) =>
              /\ exerciseConfigCache' = exerciseConfigCache
              /\ configCalls' = configCalls
              /\ call'.effects = { }
              /\ call'.configUsed = call'.preloadedConfig
              /\ Returned(call')
                    = Returned(segmentReps(poseHistory, call'.preloadedConfig,
                                           call'.lastProcessed)) ]_vars

\* a call with a preloaded configuration under the name of a predefined
\* exercise found a rep, and the cache is empty
C17_Witness ==
    /\ call # NoCall
    /\ call.preloadedConfig = generated_config
    /\ Normalize(call.exerciseName) = Texts["bicep_curl"]
    /\ call.configUsed = generated_config
    /\ call.repCount > 0
    /\ call.newRepSegments # << >>
    /\ exerciseConfigCache = << >>

\* the two vectors from the vertex lie on one line, and how they point
Collinear(src) ==
    (src.point1.x - src.vertex.x) * (src.point3.y - src.vertex.y)
        = (src.point1.y - src.vertex.y) * (src.point3.x - src.vertex.x)

SameWay(src) ==
    (src.point1.x - src.vertex.x) * (src.point3.x - src.vertex.x)
        + (src.point1.y - src.vertex.y) * (src.point3.y - src.vertex.y) > 0

\* C18: for three points of which neither outer one is the vertex,
\* calculateAngle returns an angle between 0 and 180 degrees, exactly 180
\* when the two vectors from the vertex are collinear and opposite, and
\* exactly 0 when they are collinear and point the same way.
C18_AngleBounds ==
    (call # NoCall /\ source.fn = "calculateAngle") =>
        /\ call.value \in 0..(180 * Degree)
        /\ (Collinear(source) /\ ~SameWay(source)) => call.value = 180 * Degree
        /\ (Collinear(source) /\ SameWay(source)) => call.value = 0

\* the frame of the history (counted from 0) that gave the value at index j
\* of the composite signal
FrameOfValue(history, j) ==
    Nth({ n \in 1..Len(history) : history[n] # Null /\ history[n] # EmptyPose }, j + 1) - 1

\* the places in validSequence where a rep is completed
RepPairs(cfg, validSequence) ==
    IF cfg.initialDirection = "down"
    THEN Transitions(validSequence, "valley", "peak")
    ELSE Transitions(validSequence, "peak", "valley")

\* C19: startIndex and endIndex of an emitted segment are the frames of
\* poseHistory at which the two extrema of its rep lie, and its angles are
\* the angle samples of the frames startIndex..endIndex, also when empty or
\* null frames come before or inside the rep.
C19_FrameIndices ==
    Called =>
        \A s \in 1..Len(call.newRepSegments) :
            LET segment == call.newRepSegments[s]
                events == call.locals.validSequence
                pair == Nth(RepPairs(exerciseConfig, events), segment.repNumber)
                from == FrameOfValue(poseHistory, events[pair].index)
                to == FrameOfValue(poseHistory, events[pair + 1].index)
                inRep(angleData) == angleData.timestamp >= from /\ angleData.timestamp <= to
            IN  /\ segment.startIndex = from
                /\ segment.endIndex = to
                /\ segment.angles = SelectSeq(call.locals.angleDataHistory, inRep)

\* the frames of the history that are not skipped
ValidFrames(history) ==
    { n \in 1..Len(history) : history[n] # Null /\ history[n] # EmptyPose }

\* the call went on to extrema detection with the composite signal
Detected ==
    LET pv == detectPeaksAndValleysAdvanced(call.locals.values, exerciseConfig.minPeakDistance)
    IN  call.locals.peaks = pv.peaks /\ call.locals.valleys = pv.valleys

\* the call returned the zero result before extrema detection
ShortCircuited ==
    /\ call.repCount = 0
    /\ call.newRepSegments = << >>
    /\ call.locals.allEvents = << >>

Degenerate(pose, angleConfigs) ==
    /\ pose # Null
    /\ \E n \in 1..Len(angleConfigs) :
          /\ Contributes(pose, angleConfigs[n])
          /\ \/ pose[angleConfigs[n].points[1]].r = 0
             \/ pose[angleConfigs[n].points[3]].r = 0

\* the history with the coinciding landmarks moved apart again
Repaired(history) ==
    [ t \in 1..Len(history) |->
        [ p \in DOMAIN history[t] |->
            IF p \in { LEFT_ELBOW, RIGHT_ELBOW, LEFT_KNEE, RIGHT_KNEE } THEN history[t][p]
            ELSE [ history[t][p] EXCEPT !.r = 1 ] ] ]

\* C21: when a frame of the history has an outer point of an angle definition
\* on the vertex, so that calculateAngle gives NaN for it, segmentReps raises
\* no error and returns repCount 0 and no segment, whatever the other frames
\* show; the NaN is in the composite signal and in the angle samples.
C21_DegenerateFrame ==
    (Called /\ \E t \in 1..Len(poseHistory) :
                  Degenerate(poseHistory[t], exerciseConfig.anglePoints)) =>
        /\ ~call.threw
        /\ call.repCount = 0
        /\ call.newRepSegments = << >>
        /\ call.requests = << >>
        /\ again = Returned(call)
        /\ Len(poseHistory) >= minFrames =>
              /\ NaN \in Range(call.locals.values)
              /\ \E a \in 1..Len(call.locals.angleDataHistory) :
                    call.locals.angleDataHistory[a].angle = NaN
              /\ call.locals.peaks = << >> /\ call.locals.valleys = << >>

\* a history of 20 frames or more with one degenerate frame, in which two
\* reps are counted once the coinciding landmarks are moved apart
C21_Witness ==
    /\ Called
    /\ Len(poseHistory) > minFrames
    /\ \E t \in 1..Len(poseHistory) :
          Degenerate(poseHistory[t], exerciseConfig.anglePoints)
    /\ call.repCount = 0
    /\ segmentReps(Repaired(poseHistory), exerciseConfig, 0).repCount >= 2

\* the detector has returned
Detects == call # NoCall /\ source.fn = "detectPeaksAndValleysAdvanced"

\* Math.max(3, Math.floor(minDistance / 2))
TrendWindowOf(minDistance) == IF minDistance \div 2 > 3 THEN minDistance \div 2 ELSE 3

\* C22: every peak or valley index i the detector reports for a signal of
\* length n lies in trendWindow <= i < n - trendWindow, with trendWindow =
\* max(3, floor(minDistance / 2)): a signal of length <= 2 * trendWindow has
\* no extrema, and an index is reported only when trendWindow later values
\* exist.
C22_EdgeExclusion ==
    Detects =>
        LET n == Len(source.values)
            trendWindow == TrendWindowOf(source.minDistance)
        IN  /\ \A i \in Range(call.value.peaks) \cup Range(call.value.valleys) :
                  /\ trendWindow <= i
                  /\ i < n - trendWindow
                  /\ (n - 1) - i >= trendWindow
            /\ n <= 2 * trendWindow =>
                  call.value.peaks = << >> /\ call.value.valleys = << >>

\* with a trend window of 4, a peak at the first index and a valley at the
\* last index the rule allows
C22_Witness ==
    /\ Detects
    /\ source.minDistance = 8
    /\ 4 \in Range(call.value.peaks)
    /\ (Len(source.values) - 1) - 4 \in Range(call.value.valleys)

\* the indices compared with index i: the others of [i - trendWindow, i + trendWindow]
Neighbours(i, trendWindow) == ((i - trendWindow)..(i + trendWindow)) \ { i }

\* every joint of the configuration at `angle` degrees for `frames` frames
StillHistory(cfg, angle, frames) == [ t \in 1..frames |-> PoseAt(cfg.anglePoints, angle) ]

\* C23: every peak the detector reports has a smoothed value strictly greater
\* than the smoothed value at every other index within trendWindow of it, and
\* every valley a strictly smaller one; an index that ties with a neighbour
\* of its window is reported neither as peak nor as valley, so a constant
\* signal has no extrema and a history that does not move has repCount 0.
C23_StrictExtremum ==
    Detects =>
        LET smoothed == smoothData(source.values, smoothingWindow)
            n == Len(source.values)
            trendWindow == TrendWindowOf(source.minDistance)
            reported == Range(call.value.peaks) \cup Range(call.value.valleys)
        IN  /\ \A i \in Range(call.value.peaks) : \A j \in Neighbours(i, trendWindow) :
                  smoothed[i + 1] > smoothed[j + 1]
            /\ \A i \in Range(call.value.valleys) : \A j \in Neighbours(i, trendWindow) :
                  smoothed[i + 1] < smoothed[j + 1]
            /\ \A i \in trendWindow..(n - trendWindow - 1) :
                  (\E j \in Neighbours(i, trendWindow) : smoothed[i + 1] = smoothed[j + 1])
                      => i \notin reported
            /\ (n > 0 /\ \A m \in 1..n : source.values[m] = source.values[1]) =>
                  /\ reported = { }
                  /\ \A cfg \in Configs :
                        LET still == segmentReps(StillHistory(cfg, source.values[1], minFrames + n),
                                                 cfg, 0)
                        IN  still.repCount = 0 /\ still.newRepSegments = << >>

\* a peak is reported, and another index that is as high as every neighbour
\* and well above the minimum is not, because it ties with one of them
C23_Witness ==
    /\ Detects
    /\ call.value.peaks # << >>
    /\ LET smoothed == smoothData(source.values, smoothingWindow)
           trendWindow == TrendWindowOf(source.minDistance)
       IN  \E i \in trendWindow..(Len(source.values) - trendWindow - 1) :
              /\ \A j \in Neighbours(i, trendWindow) : smoothed[i + 1] >= smoothed[j + 1]
              /\ \E j \in Neighbours(i, trendWindow) : smoothed[i + 1] = smoothed[j + 1]
              /\ smoothed[i + 1] = SeqMax(smoothed)
              /\ i \notin Range(call.value.peaks)

\* the indices of the loop that are strictly above every neighbour, and
\* those strictly below
StrictPeaks(smoothed, trendWindow) ==
    { i \in trendWindow..(Len(smoothed) - trendWindow - 1) :
        \A j \in Neighbours(i, trendWindow) : smoothed[i + 1] > smoothed[j + 1] }

StrictValleys(smoothed, trendWindow) ==
    { i \in trendWindow..(Len(smoothed) - trendWindow - 1) :
        \A j \in Neighbours(i, trendWindow) : smoothed[i + 1] < smoothed[j + 1] }

\* list holds, in ascending order, the indices of `passing` that are at least
\* minDistance after the index of list before them: an index of `passing`
\* is left out exactly when it is too close to the last index of list
\* before it
SpacedChoice(list, passing, minDistance) ==
    /\ Range(list) \subseteq passing
    /\ \A m \in 1..(Len(list) - 1) : list[m + 1] - list[m] >= minDistance
    /\ \A i \in passing \ Range(list) :
          \E m \in 1..Len(list) :
              /\ list[m] < i
              /\ i - list[m] < minDistance
              /\ m < Len(list) => list[m + 1] > i

\* C24: with min, max and range = max - min of the smoothed signal, every
\* reported peak i has smoothed[i] - min > 0.15 * range and every reported
\* valley max - smoothed[i] > 0.15 * range; a strict extremum that fails this
\* test is not reported and is not the index the spacing rule measures
\* from: the reported peaks are chosen by the spacing rule among the
\* strict peaks that pass the test, and the valleys likewise.
C24_ProminenceGate ==
    (Detects /\ Len(source.values) >= minSamples) =>
        LET smoothed == smoothData(source.values, smoothingWindow)
            trendWindow == TrendWindowOf(source.minDistance)
            min == SeqMin(smoothed)
            max == SeqMax(smoothed)
            range == max - min
            passingPeaks == { i \in StrictPeaks(smoothed, trendWindow) :
                                (smoothed[i + 1] - min) * 100 > 15 * range }
            passingValleys == { i \in StrictValleys(smoothed, trendWindow) :
                                  (max - smoothed[i + 1]) * 100 > 15 * range }
        IN  /\ SpacedChoice(call.value.peaks, passingPeaks, source.minDistance)
            /\ SpacedChoice(call.value.valleys, passingValleys, source.minDistance)

\* a strict peak fails the test, and a peak less than minDistance after it
\* is reported
C24_Witness ==
    /\ Detects
    /\ Len(source.values) >= minSamples
    /\ LET smoothed == smoothData(source.values, smoothingWindow)
           trendWindow == TrendWindowOf(source.minDistance)
       IN  \E i \in StrictPeaks(smoothed, trendWindow) :
              /\ (smoothed[i + 1] - SeqMin(smoothed)) * 100
                    <= 15 * (SeqMax(smoothed) - SeqMin(smoothed))
              /\ \E q \in Range(call.value.peaks) :
                    q > i /\ q - i < source.minDistance

\* every frame of the history is a pose with all landmarks of at least one
\* angle definition
FullyValid(history, cfg) ==
    \A t \in 1..Len(history) :
        /\ history[t] # Null
        /\ history[t] # EmptyPose
        /\ \E n \in 1..Len(cfg.anglePoints) : Contributes(history[t], cfg.anglePoints[n])

\* the segments of the call with repNumber r
SegmentsOf(r) ==
    { m \in 1..Len(call.newRepSegments) : call.newRepSegments[m].repNumber = r }

\* an angle sample lies in the index range of the r-th completed rep
SampleInRep(r) ==
    LET events == call.locals.validSequence
        pair == Nth(RepPairs(exerciseConfig, events), r)
    IN  \E a \in 1..Len(call.locals.angleDataHistory) :
            /\ call.locals.angleDataHistory[a].timestamp >= events[pair].index
            /\ call.locals.angleDataHistory[a].timestamp <= events[pair + 1].index

\* C25: on a history whose frames are all poses with the landmarks of at
\* least one angle definition, newRepSegments has max(0, repCount - k)
\* segments, numbered k + 1 .. repCount in this order, k being
\* lastProcessedRepCount.  On any history, a rep numbered above k has one
\* segment when an angle sample lies in its index range and none otherwise,
\* and it is counted in repCount in both cases.
C25_CompleteEmission ==
    Called =>
        LET k == lastProcessedRepCount
            segments == call.newRepSegments
        IN  /\ FullyValid(poseHistory, exerciseConfig) =>
                  /\ Len(segments) = Max2(0, call.repCount - k)
                  /\ \A m \in 1..Len(segments) : segments[m].repNumber = k + m
            /\ call.repCount = Cardinality(RepPairs(exerciseConfig, call.locals.validSequence))
            /\ \A r \in (k + 1)..call.repCount :
                  Cardinality(SegmentsOf(r)) = IF SampleInRep(r) THEN 1 ELSE 0
            /\ \A m \in 1..Len(segments) : segments[m].repNumber \in (k + 1)..call.repCount

\* three reps on a fully valid history with lastProcessedRepCount 1: the
\* segments 2 and 3
C25_Witness ==
    /\ Called
    /\ FullyValid(poseHistory, exerciseConfig)
    /\ lastProcessedRepCount = 1
    /\ call.repCount = 3
    /\ Len(call.newRepSegments) = 2
    /\ call.newRepSegments[1].repNumber = 2
    /\ call.newRepSegments[2].repNumber = 3

\* a rep that is counted and has no segment, with later reps emitted
C25_SkippedRep ==
    /\ Called
    /\ \E r \in (lastProcessedRepCount + 1)..call.repCount :
          /\ SegmentsOf(r) = { }
          /\ ~SampleInRep(r)
          /\ SegmentsOf(r + 1) # { }

\* the angle definitions of a configuration that declare both target angles
BothDeclared(cfg) ==
    { n \in 1..Len(cfg.anglePoints) :
        /\ cfg.anglePoints[n].targetLowAngle # Undefined
        /\ cfg.anglePoints[n].targetHighAngle # Undefined }

\* tenths is sum / count to one decimal, a half upwards
MeanInTenths(tenths, sum, count) ==
    /\ 2 * (tenths * count - 10 * sum) <= count
    /\ 2 * (tenths * count - 10 * sum) > 0 - count

\* C26: the request of a rep analysis carries as targetAngles the mean of
\* targetLowAngle (min) and the mean of targetHighAngle (max), to one decimal,
\* over exactly the angle definitions that declare both; a definition that
\* declares one of them is in neither mean.  targetAngles is left out when no
\* definition declares both.  A segment without angle samples makes no
\* request.
C26_TargetAngles ==
    (call # NoCall /\ source.fn = "processRepSegment") =>
        LET cfg == source.exerciseConfig
            both == BothDeclared(cfg)
            Low(n) == cfg.anglePoints[n].targetLowAngle
            High(n) == cfg.anglePoints[n].targetHighAngle
        IN  IF source.repSegment.angles = << >> THEN call.value = << >>
            ELSE /\ Len(call.value) = 1
                 /\ both = { } => call.value[1].targetAngles = NoTargetAngles
                 /\ both # { } =>
                       /\ call.value[1].targetAngles # NoTargetAngles
                       /\ MeanInTenths(call.value[1].targetAngles.min,
                                       SumOver(both, Low, Len(cfg.anglePoints)),
                                       Cardinality(both))
                       /\ MeanInTenths(call.value[1].targetAngles.max,
                                       SumOver(both, High, Len(cfg.anglePoints)),
                                       Cardinality(both))

\* of three definitions one declares 0 and 160, one only a low angle of 160
\* and one only a high angle of 0: the request carries 0 and 160
C26_Witness ==
    /\ call # NoCall
    /\ source.fn = "processRepSegment"
    /\ source.exerciseConfig = TargetConfig(<< << 160, Undefined >>, << 0, 160 >>,
                                              << Undefined, 0 >> >>)
    /\ Len(call.value) = 1
    /\ call.value[1].targetAngles = [ min |-> 0, max |-> 1600 ]

\* C27: in the tracking loop of the form-analysis page the three counters
\* are equal at all times; the step that completes a call (its `.then` has
\* run) sets them to the larger of their value and the repCount the call
\* returned, also when that repCount is smaller than an earlier one, so that
\* they hold the largest repCount returned since the last reset; no other
\* step changes them except resetRepCount, which sets all three to 0 and
\* empties poseHistory.
C27_DisplayedCount ==
    /\ [](currentReps = maxRepsEverSeen /\ maxRepsEverSeen = lastProcessedRepCount)
    /\ [][ /\ (microtasks # << >> /\ microtasks' = Tail(microtasks)) =>
                  /\ currentReps' = Max2(currentReps, Head(microtasks).repCount)
                  /\ currentReps' >= currentReps
           /\ (microtasks = << >> \/ microtasks' # Tail(microtasks)) =>
                  \/ currentReps' = currentReps
                  \/ /\ currentReps' = 0
                     /\ maxRepsEverSeen' = 0
                     /\ lastProcessedRepCount' = 0
                     /\ poseHistory' = << >>
           /\ Len(poseHistory') < Len(poseHistory) =>
                  /\ currentReps' = 0
                  /\ maxRepsEverSeen' = 0
                  /\ lastProcessedRepCount' = 0
                  /\ poseHistory' = << >> ]_vars

\* a call has completed whose repCount is smaller than the count displayed
C27_Witness ==
    /\ microtasks = << >>
    /\ call # NoCall
    /\ call.repCount < currentReps
    /\ currentReps = maxRepsEverSeen
    /\ currentReps = lastProcessedRepCount

\* the signal -s
Negated(values) == [ n \in 1..Len(values) |-> Minus(0, values[n]) ]

\* the configuration with inverted and initialDirection set
Directed(cfg, inverted, initialDirection) ==
    [ cfg EXCEPT !.inverted = inverted, !.initialDirection = initialDirection ]

\* the history is long enough for the detector to be called, and the
\* composite signal of the call is the one detection ran on
Segmented ==
    /\ Called
    /\ Len(call.locals.values) >= minFrames

\* C28: the peaks the detector finds on the negated composite signal are the
\* valleys it finds on the signal, and the valleys the peaks, for the
\* minPeakDistance of every configuration; and on the same history the
\* repCount with inverted = true and initialDirection "down" is the repCount
\* with inverted = false and initialDirection "up".
C28_InversionDuality ==
    [](Called =>
         \E down \in { segmentReps(poseHistory, Directed(exerciseConfig, TRUE, "down"), 0) } :
         \E up \in { segmentReps(poseHistory, Directed(exerciseConfig, FALSE, "up"), 0) } :
             /\ down.locals.values = Negated(up.locals.values)
             /\ down.locals.peaks = up.locals.valleys
             /\ down.locals.valleys = up.locals.peaks
             /\ down.repCount = up.repCount)

\* a history with two peaks and a valley, on which both configurations
\* count a rep and the configuration in use is neither of the two
C28_Witness ==
    /\ Segmented
    /\ Len(call.locals.peaks) >= 2
    /\ Len(call.locals.valleys) >= 1
    /\ exerciseConfig = squat
    /\ segmentReps(poseHistory, Directed(exerciseConfig, TRUE, "down"), 0).repCount >= 1

\* the frame indices startIndex..endIndex of a segment
FramesOf(segment) == segment.startIndex..segment.endIndex

\* C29: in the newRepSegments of every call each segment has startIndex <
\* endIndex and a duration above 0, the endIndex of a segment is below the
\* startIndex of the segment after it, and no frame index lies in two segments.
C29_OrderedDisjoint ==
    Called =>
        LET segments == call.newRepSegments
        IN  /\ \A n \in 1..Len(segments) :
                  /\ segments[n].startIndex < segments[n].endIndex
                  /\ segments[n].duration > 0
            /\ \A n \in 1..(Len(segments) - 1) :
                  segments[n].endIndex < segments[n + 1].startIndex
            /\ \A n, m \in 1..Len(segments) :
                  n # m => FramesOf(segments[n]) \cap FramesOf(segments[m]) = { }

\* a call that returns two segments or more
C29_Witness ==
    /\ Called
    /\ Len(call.newRepSegments) >= 2
    /\ call.newRepSegments[2].startIndex > call.newRepSegments[1].endIndex + 1

\* the key of the cache that a waiting call asked for
KeyOf(c) == Text(Normalize(c.exerciseName))

\* the generation requests for a key that are in flight and were issued
\* after the last clearExerciseConfigCache
InFlight(key) == { c \in configCalls : KeyOf(c) = key /\ ~c.cleared }

\* C30: since the last clearExerciseConfigCache at most one generation
\* request has been issued for a key while none of them has failed, a call
\* that went through the cache returns the configuration cached for its key,
\* and null is never cached.
C30_SingleGeneration ==
    /\ \A key \in DOMAIN Texts : Cardinality(InFlight(key)) <= 1
    /\ \A key \in DOMAIN exerciseConfigCache : exerciseConfigCache[key] # NoConfig
    /\ (/\ call # NoCall
        /\ "has" \in call.effects
        /\ call.configUsed # NoConfig
        /\ Text(Normalize(call.exerciseName)) \in DOMAIN exerciseConfigCache)
       => call.configUsed = exerciseConfigCache[Text(Normalize(call.exerciseName))]

====
